---- MODULE Spec2Model ----
(***************************************************************************)
(* Connection manager of the Coherent HOPS hardware interface.             *)
(*                                                                         *)
(* The model follows src/src/coherent_lasers/hops/cohrhops.py              *)
(* (CohrHOPSManager: discover, send_command, close_device, close, serials) *)
(* and the retrying discover() of src/src/coherent_lasers/hops/lib2.py.    *)
(* Callers are threads; every call into the vendor DLL is a call step and  *)
(* a return step, so that "a call is in flight" is a state.  The DLL and   *)
(* the devices behind it are the environment: a call on a handle can fail  *)
(* at any time and can succeed only while a device is attached to it.      *)
(***************************************************************************)
EXTENDS Integers, Sequences, FiniteSets, TLC

\* ------------------------------------------------------------------ bounds
\* Handles the DLL can hand out are 1..MaxHandle.
MaxHandle == 2

\* ------------------------------------------------------- program constants
COHRHOPS_OK == 0
MAX_DEVICES == 20
\* lib2.py discover(): max_attempts
max_attempts == 5

Threads == {"t1", "t2"}
NoThread == "none"
Handles == 1..MaxHandle
\* A slot of the handle array that CheckForDevices did not fill.
NullHandle == 0
Serials == {"A", "B"}
NoSerial == "-"
\* A return code of the DLL other than COHRHOPS_OK.
COHRHOPS_INVALID_HEAD == -2

VARIABLES
    attached,        \* environment: the device (serial) behind each handle
    connections,     \* self._connections: the handles CheckForDevices listed
    serials,         \* self._serials: dict serial -> handle
    closed_serials,  \* self._closed_serials
    lock,            \* self._lock: the thread holding it, or NoThread
    thr,             \* per thread: position and locals of the running call
    released,        \* serials closed by close_device and not resolved since
    replaced,        \* per serial: the handle its present mapping replaced
    laser,           \* environment: the registers of the laser head
    gmx,             \* the GenesisMX instance: its cached properties
    drv,             \* per thread: the running call into the GenesisMX instance
    DEVICES,         \* api.py DEVICES: serial -> the instance registered for it
    app,             \* api.py: the application's phase and its running requests
    mock,            \* the MockGenesisMX instance
    script,          \* tests/test_script.py: the stress loop
    mgr,             \* hops/cohrhops.py: get_cohrhops_manager and its callers
    ws               \* genesis_mx/app/server.py: websockets and publisher tasks

vars == <<attached, connections, serials, closed_serials, lock, thr, released,
          replaced, laser, gmx, drv, DEVICES, app, mock, script,
          mgr, ws>>

\* --------------------------------------------------------------- helpers
\* Locals of a thread that runs no manager operation.
IdleThread ==
    [pc |-> "idle", op |-> "none", serial |-> NoSerial, handle |-> NullHandle,
     i |-> 0, n |-> 0, fails |-> {}, ret |-> "none",
     nDisc |-> 0, nSend |-> 0, nInit |-> 0, first |-> "none", reinit |-> "none",
     attempts |-> 0, nRefresh |-> 0, allEmpty |-> TRUE, resolved |-> {}]

\* dict: serial in self._serials
Known(s) == s \in DOMAIN serials

\* A faulty assignment that keeps the handle a serial already has.
MapKeepFirst(m, s, h) ==
    [x \in DOMAIN m \cup {s} |-> IF x \in DOMAIN m THEN m[x] ELSE h]

\* dict: self._serials[serial] = handle
MapPut(m, s, h) == [x \in DOMAIN m \cup {s} |-> IF x = s THEN h ELSE m[x]]

\* dict: del self._serials[serial]
MapDel(m, s) == [x \in DOMAIN m \ {s} |-> m[x]]

\* The handle that the mapping s -> h, written by a discovery, replaces: the
\* one s was mapped to when that differs from h, none when s is new.
Replaced(s, h) ==
    IF ~Known(s) THEN NullHandle
    ELSE IF serials[s] # h THEN serials[s]
    ELSE replaced[s]

\* HandleCollection.__getitem__ on the 0-based index k: a slot past the
\* filled part holds no device handle.
HandleAt(k) == IF k < Len(connections) THEN connections[k + 1] ELSE NullHandle

\* The operation of thread t ends: normally (kind "ok") or by raising kind.
\* Its locals are gone; the caller sees how it ended.
Finish(t, kind) == [IdleThread EXCEPT !.pc = "done", !.ret = kind]

\* A faulty lock entry that does not wait for the holder.
AcquireNoWait(t) == lock' = t

\* with self._lock: entering
AcquireLock(t) == lock = NoThread /\ lock' = t

\* A with block that keeps the lock when it is left.
HoldLock(t) == lock' = t

\* with self._lock: leaving (normally or by an exception)
ReleaseLock(t) == lock' = NoThread

\* --------------------------------------------------- the DLL (environment)
\* CohrHOPS_CheckForDevices: the handles of the attached devices, ascending.
ConnectedHandles ==
    SelectSeq([h \in 1..MaxHandle |-> h], LAMBDA h : attached[h] # NoSerial)

\* CohrHOPS_SendCommand / CohrHOPS_InitializeHandle on handle h: the return
\* codes the interface can give.
DllResults(h) ==
    {COHRHOPS_INVALID_HEAD} \cup
    (IF h \in Handles /\ attached[h] # NoSerial THEN {COHRHOPS_OK} ELSE {})

\* The response to "?HID" on handle h.
HidResponse(h) == attached[h]

\* A device is plugged in: the DLL gives it a free handle.
Attach(h, s) ==
    /\ attached[h] = NoSerial
    /\ \A g \in Handles : attached[g] # s
    /\ attached' = [attached EXCEPT ![h] = s]
    /\ UNCHANGED <<connections, serials, closed_serials, lock, thr, released,
                   replaced, laser, gmx, drv, DEVICES, app, mock, script,
                   mgr, ws>>

\* The handle a device gets when it always comes back on the same port.
HomeHandle(s) == IF s = "A" THEN 1 ELSE MaxHandle

\* A device is plugged in on its own port.
AttachHome(s) == Attach(HomeHandle(s), s)

\* A device is unplugged or powered off.
Detach(h) ==
    /\ attached[h] # NoSerial
    /\ attached' = [attached EXCEPT ![h] = NoSerial]
    /\ UNCHANGED <<connections, serials, closed_serials, lock, thr, released,
                   replaced, laser, gmx, drv, DEVICES, app, mock, script,
                   mgr, ws>>

\* ------------------------------------------------ strings and values
\* A response string that is a number in the notation of its command.
Num(n) == [k |-> "num", n |-> n, s |-> "", l |-> <<>>]

\* Any other response string; Text("") is the empty response.
Text(s) == [k |-> "text", n |-> 0, s |-> s, l |-> <<>>]

\* The values the GenesisMX methods return.
None == [k |-> "none", n |-> 0, s |-> "", l |-> <<>>]
Float(n) == [k |-> "float", n |-> n, s |-> "", l |-> <<>>]
Bool(b) == [k |-> "bool", n |-> IF b THEN 1 ELSE 0, s |-> "", l |-> <<>>]
List(l) == [k |-> "list", n |-> 0, s |-> "", l |-> l]

\* Truth value of a string or of a returned value, as `if x` and `not x`
\* take it.
Truthy(v) ==
    CASE v.k = "num" -> TRUE
      [] v.k = "text" -> v.s # ""
      [] v.k = "none" -> FALSE
      [] v.k = "float" -> v.n # 0
      [] v.k = "bool" -> v.n = 1
      [] v.k = "list" -> v.l # <<>>

\* A command string: ReadCmd.read() is the bare name, ReadWrite.write(value)
\* is f"{write_cmd}{value}", the name followed by the value.
Command(name, val) == [name |-> name, val |-> val]

\* A manager call that is not made through a GenesisMX instance.
NoCommand == Command("", 0)

\* ReadWrite: the read command of the register a write command sets.
ReadOf(name) ==
    CASE name = "PCMD=" -> "?PCMD"
      [] name = "KSWCMD=" -> "?KSWCMD"
      [] name = "CMODECMD=" -> "?CMODE"

\* ---------------------------------------------- the laser head (environment)
HeadTypes == {"MiniX", "Mini00"}

\* The registers of a head that was just powered on.
LaserOff ==
    [int |-> FALSE, key |-> FALSE, ksw |-> 0, pcmd |-> 0, ff |-> 0,
     mode |-> 0, htype |-> "MiniX", hh |-> "100"]

\* What the head answers to a read command; a write command has no answer
\* that the driver uses.
Answer(c) ==
    CASE c.name = "?INT" -> Num(IF laser.int THEN 1 ELSE 0)
      [] c.name = "?KSW" -> Num(IF laser.key THEN 1 ELSE 0)
      [] c.name = "?KSWCMD" -> Num(laser.ksw)
      [] c.name = "?PCMD" -> Num(laser.pcmd)
      [] c.name = "?FF" -> Num(laser.ff)
      [] c.name = "?CMODE" -> Num(laser.mode)
      [] c.name = "?HTYPE" -> Text(laser.htype)
      [] c.name = "?HH" -> Text(laser.hh)
      [] c.name = "?HBDREV" -> Text("revision")
      [] OTHER -> Text("")

\* send_cohrhops_command: response.value.decode("utf-8").strip() is whatever
\* the interface left in the buffer: the answer, or for a numeric register
\* also nothing or text that is no number.
Responses(c) ==
    IF Answer(c).k = "num" THEN {Answer(c), Text(""), Text("ERR")}
    ELSE {Answer(c)}

\* The registers after the head has taken command c; a written value is
\* stored when the head accepts it.
Execute(c, accepted) ==
    CASE c.name = "PCMD=" /\ accepted -> [laser EXCEPT !.pcmd = c.val]
      [] c.name = "KSWCMD=" /\ accepted -> [laser EXCEPT !.ksw = c.val]
      [] c.name = "CMODECMD=" /\ accepted -> [laser EXCEPT !.mode = c.val]
      [] OTHER -> laser

\* ------------------------------------------------- the GenesisMX instance
\* CohrHOPSDevice.serial of the instance.
DeviceSerial == "A"

\* cached_property info / unit_factor not computed yet.
NoInfo == [cached |-> FALSE, head_type |-> None, head_hours |-> None,
           head_board_revision |-> None]

\* An info whose evaluation is not kept by the instance.
InfoNotKept(head_type, head_hours, head_board_revision) == NoInfo

\* GenesisMXInfo(serial, wavelength, head_type, head_hours, None,
\* head_board_revision), stored by cached_property in the instance.
GenesisMXInfo(head_type, head_hours, head_board_revision) ==
    [cached |-> TRUE, head_type |-> head_type, head_hours |-> head_hours,
     head_board_revision |-> head_board_revision]

\* lastSet: the last power_setpoint assignment whose write was sent, x in mW
\* and n as written.  fetched: an evaluation of info has returned.
NoInstance ==
    [info |-> NoInfo, unit_factor |-> 0, lastSet |-> [x |-> -1, n |-> -1],
     fetched |-> FALSE]

\* ------------------------------------------------------ api.py: registry
\* No GenesisMX instance: the serial is not a key of DEVICES.
NoDevice == 0

\* DEVICES = {}
NoDevices == [s \in Serials |-> NoDevice]

\* A registry that never shows a key.
RegisteredNone == {}

\* list(DEVICES.keys())
Registered == {s \in Serials : DEVICES[s] # NoDevice}

\* No request is running.
IdleRequest ==
    [pc |-> "idle", op |-> "none", serial |-> NoSerial, out |-> "none",
     exc |-> "none", device |-> NoDevice, serials |-> {}, nDiscover |-> 0,
     todo |-> {}, zeroed |-> {}, closed |-> {}]

\* The application (api.py) before its lifespan has started; made counts
\* the GenesisMX instances constructed so far, which names each instance.
NoApp ==
    [module |-> "api", phase |-> "init", made |-> 0,
     call |-> [t \in Threads |-> IdleRequest]]

\* genesis_mx/app/server.py before its lifespan has started.
ServerApp == [NoApp EXCEPT !.module = "server"]

\* No call into the instance is running.
IdleDriver ==
    [pc |-> "idle", op |-> "none", acc |-> "none", cmd |-> NoCommand,
     resp |-> Text(""), arg |-> 0, val |-> None, wval |-> 0,
     vInt |-> None, vKey |-> None, nWrite |-> 0, head_type |-> None,
     head_hours |-> None, out |-> "none", exc |-> "none", result |-> None,
     wret |-> None, rinfo |-> NoInfo, hit |-> FALSE, overtaken |-> FALSE]

\* Outcome of a method: a returned value or a raised exception.
Returns(v) == [exc |-> "none", val |-> v]
Raises(e) == [exc |-> e, val |-> None]

\* The exceptions of the manager that are HOPSCommandException.
HOPSCommandExceptions == {"CommandError", "DeviceNotFound"}

\* -------------------------------------------------------------- the calls
CallDiscover(t) ==
    /\ thr[t].pc = "idle"
    /\ thr' = [thr EXCEPT ![t] =
                 [IdleThread EXCEPT !.pc = "refresh_ret", !.op = "discover",
                                    !.nDisc = 1]]
    /\ UNCHANGED <<attached, connections, serials, closed_serials, lock,
                   released,
                   replaced, laser, gmx, drv, DEVICES, app, mock, script,
                   mgr, ws>>

CallSendCommand(t, s) ==
    /\ thr[t].pc = "idle"
    /\ thr' = [thr EXCEPT ![t] =
                 [IdleThread EXCEPT !.pc = "sc_known1", !.op = "send_command",
                                    !.serial = s]]
    /\ UNCHANGED <<attached, connections, serials, closed_serials, lock,
                   released,
                   replaced, laser, gmx, drv, DEVICES, app, mock, script,
                   mgr, ws>>

CallCloseDevice(t, s) ==
    /\ thr[t].pc = "idle"
    /\ thr' = [thr EXCEPT ![t] =
                 [IdleThread EXCEPT !.pc = "cd_lock", !.op = "close_device",
                                    !.serial = s]]
    /\ UNCHANGED <<attached, connections, serials, closed_serials, lock,
                   released,
                   replaced, laser, gmx, drv, DEVICES, app, mock, script,
                   mgr, ws>>

CallClose(t) ==
    /\ thr[t].pc = "idle"
    /\ thr' = [thr EXCEPT ![t] =
                 [IdleThread EXCEPT !.pc = "cl_log", !.op = "close"]]
    /\ UNCHANGED <<attached, connections, serials, closed_serials, lock,
                   released,
                   replaced, laser, gmx, drv, DEVICES, app, mock, script,
                   mgr, ws>>

CallSerials(t) ==
    /\ thr[t].pc = "idle"
    /\ thr' = [thr EXCEPT ![t] =
                 [IdleThread EXCEPT !.pc = "serials_read", !.op = "serials"]]
    /\ UNCHANGED <<attached, connections, serials, closed_serials, lock,
                   released,
                   replaced, laser, gmx, drv, DEVICES, app, mock, script,
                   mgr, ws>>

\* The caller takes the result of the finished operation.
Return(t) ==
    /\ thr[t].pc = "done"
    /\ thr' = [thr EXCEPT ![t] = IdleThread]
    /\ UNCHANGED <<attached, connections, serials, closed_serials, lock,
                   released,
                   replaced, laser, gmx, drv, DEVICES, app, mock, script,
                   mgr, ws>>

\* --------------------------------------------------------------- serials
\* property serials: list(self._serials.keys()), no lock taken
SerialsRead(t) ==
    /\ thr[t].pc = "serials_read"
    /\ thr' = [thr EXCEPT ![t] = Finish(t, "ok")]
    /\ UNCHANGED <<attached, connections, serials, closed_serials, lock,
                   released,
                   replaced, laser, gmx, drv, DEVICES, app, mock, script,
                   mgr, ws>>

\* -------------------------------------------------------------- discover
\* _refresh_connected_handles: CheckForDevices returns.  On COHRHOPS_OK it
\* has filled self._connections; any other code raises HOPSException.
RefreshReturn(t) ==
    /\ thr[t].pc = "refresh_ret"
    /\ \E res \in {COHRHOPS_OK, COHRHOPS_INVALID_HEAD} :
         IF res # COHRHOPS_OK
         THEN /\ thr' = [thr EXCEPT ![t] = Finish(t, "CheckError")]
              /\ UNCHANGED connections
         ELSE /\ connections' = ConnectedHandles
              /\ thr' = [thr EXCEPT ![t] = [@ EXCEPT !.pc = "disc_len"]]
    /\ UNCHANGED <<attached, serials, closed_serials, lock, released, replaced,
                   laser, gmx, drv, DEVICES, app, mock, script, mgr, ws>>

\* discover: self._refresh_connected_handles() entered CheckForDevices when the
\* call began (no lock is taken on this path).
\* discover: if len(self._connections) == 0: raise HOPSException("No devices found.")
DiscoverCheckLen(t) ==
    /\ thr[t].pc = "disc_len"
    /\ thr' = [thr EXCEPT ![t] =
                 IF Len(connections) = 0
                 THEN Finish(t, "NoDevicesFound")
                 ELSE [@ EXCEPT !.pc = "rs_lock"]]
    /\ UNCHANGED <<attached, connections, serials, closed_serials, lock,
                   released,
                   replaced, laser, gmx, drv, DEVICES, app, mock, script,
                   mgr, ws>>

\* _refresh_serials: with self._lock; fails = []; range(len(self._connections))
RefreshSerialsLock(t) ==
    /\ thr[t].pc = "rs_lock"
    /\ AcquireLock(t)
    /\ thr' = [thr EXCEPT ![t] =
                 [@ EXCEPT !.pc = "rs_loop", !.i = 0, !.n = Len(connections),
                           !.fails = {}, !.resolved = {}]]
    /\ UNCHANGED <<attached, connections, serials, closed_serials, released,
                   replaced,
                   laser, gmx, drv, DEVICES, app, mock, script, mgr, ws>>

\* _refresh_serials: the loop test; handle = self._connections[i]; the first
\* query_serial(handle) enters CohrHOPS_SendCommand("?HID").
RefreshSerialsLoop(t) ==
    /\ thr[t].pc = "rs_loop"
    /\ thr' = [thr EXCEPT ![t] =
                 IF thr[t].i < thr[t].n
                 THEN [@ EXCEPT !.pc = "rs_q1_ret", !.handle = HandleAt(thr[t].i)]
                 ELSE [@ EXCEPT !.pc = "rs_end"]]
    /\ UNCHANGED <<attached, connections, serials, closed_serials, lock,
                   released,
                   replaced, laser, gmx, drv, DEVICES, app, mock, script,
                   mgr, ws>>

\* The walrus condition of _refresh_serials after a read that returned the
\* serial s: self._serials[serial] = handle, and the loop goes on.
SerialResolved(t, s) ==
    /\ serials' = MapPut(serials, s, thr[t].handle)
    /\ released' = released \ {s}
    /\ replaced' = [replaced EXCEPT ![s] = Replaced(s, thr[t].handle)]
    /\ thr' = [thr EXCEPT ![t] = [@ EXCEPT !.pc = "rs_loop", !.i = @ + 1,
                                          !.resolved = @ \cup {s}]]

\* else: fails.append(handle)
SerialFailed(t) ==
    /\ thr' = [thr EXCEPT ![t] =
                 [@ EXCEPT !.pc = "rs_loop", !.i = @ + 1,
                           !.fails = @ \cup {thr[t].handle}]]
    /\ UNCHANGED <<serials, released, replaced, laser, gmx, drv, DEVICES,
                   app, mock, script, mgr, ws>>

\* The first query_serial returns; on failure _initialize_device(handle)
\* enters CohrHOPS_InitializeHandle.
QuerySerialReturn(t) ==
    /\ thr[t].pc = "rs_q1_ret"
    /\ \E res \in DllResults(thr[t].handle) :
         IF res = COHRHOPS_OK
         THEN SerialResolved(t, HidResponse(thr[t].handle))
         ELSE /\ thr' = [thr EXCEPT ![t] = [@ EXCEPT !.pc = "rs_init_ret"]]
              /\ UNCHANGED <<serials, released, replaced>>
    /\ UNCHANGED <<attached, connections, closed_serials, lock, laser, gmx,
                   drv, DEVICES, app, mock, script, mgr, ws>>

\* _initialize_device inside _refresh_serials returns: on failure it enters
\* CohrHOPS_Close(handle) (cohrhops.py; lib2.py only returns False), on
\* success the second query_serial enters CohrHOPS_SendCommand.
InitInRefreshReturn(t) ==
    /\ thr[t].pc = "rs_init_ret"
    /\ \E res \in DllResults(thr[t].handle) :
         IF res = COHRHOPS_OK
         THEN /\ thr' = [thr EXCEPT ![t] = [@ EXCEPT !.pc = "rs_q2_ret"]]
              /\ UNCHANGED <<serials, released, replaced>>
         ELSE IF thr[t].op = "lib2_discover"
              THEN SerialFailed(t)
              ELSE /\ thr' = [thr EXCEPT ![t] = [@ EXCEPT !.pc = "rs_close_ret"]]
                   /\ UNCHANGED <<serials, released, replaced>>
    /\ UNCHANGED <<attached, connections, closed_serials, lock, laser, gmx,
                   drv, DEVICES, app, mock, script, mgr, ws>>

\* _initialize_device: self._close(handle) returns, return False.
CloseInRefreshReturn(t) ==
    /\ thr[t].pc = "rs_close_ret"
    /\ SerialFailed(t)
    /\ UNCHANGED <<attached, connections, closed_serials, lock, laser, gmx,
                   drv, DEVICES, app, mock, script, mgr, ws>>

\* The second query_serial returns.
RequerySerialReturn(t) ==
    /\ thr[t].pc = "rs_q2_ret"
    /\ \E res \in DllResults(thr[t].handle) :
         IF res = COHRHOPS_OK
         THEN SerialResolved(t, HidResponse(thr[t].handle))
         ELSE SerialFailed(t)
    /\ UNCHANGED <<attached, connections, closed_serials, lock, laser, gmx,
                   drv, DEVICES, app, mock, script, mgr, ws>>

\* _refresh_serials: what the end of the loop does with a non-empty fails
\* list: log a warning and raise HOPSException.
FailsRaise(fails) == fails # {}

\* _refresh_serials: the with block is left, by the raise or normally.
RefreshSerialsEnd(t) ==
    /\ thr[t].pc = "rs_end"
    /\ ReleaseLock(t)
    /\ thr' = [thr EXCEPT ![t] =
                 IF FailsRaise(thr[t].fails)
                 THEN Finish(t, "SerialsError")
                 ELSE [@ EXCEPT !.pc = "disc_return"]]
    /\ UNCHANGED <<attached, connections, serials, closed_serials, released,
                   replaced,
                   laser, gmx, drv, DEVICES, app, mock, script, mgr, ws>>

\* discover: return self.serials (read without the lock).  Inside
\* send_command the list is dropped and the second known-serial test follows.
DiscoverReturn(t) ==
    /\ thr[t].pc = "disc_return"
    /\ thr' = [thr EXCEPT ![t] =
                 IF thr[t].op = "send_command"
                 THEN [@ EXCEPT !.pc = "sc_known2", !.handle = NullHandle,
                                !.i = 0, !.n = 0, !.fails = {}, !.resolved = {}]
                 ELSE Finish(t, "ok")]
    /\ UNCHANGED <<attached, connections, serials, closed_serials, lock,
                   released,
                   replaced, laser, gmx, drv, DEVICES, app, mock, script,
                   mgr, ws>>

\* ---------------------------------------------------------- send_command
\* if serial not in self.serials: self.discover()     (read without the lock)
SendCommandKnown1(t) ==
    /\ thr[t].pc = "sc_known1"
    /\ thr' = [thr EXCEPT ![t] =
                 IF ~Known(thr[t].serial)
                 THEN [@ EXCEPT !.pc = "refresh_ret", !.nDisc = @ + 1]
                 ELSE [@ EXCEPT !.pc = "sc_known2"]]
    /\ UNCHANGED <<attached, connections, serials, closed_serials, lock,
                   released,
                   replaced, laser, gmx, drv, DEVICES, app, mock, script,
                   mgr, ws>>

\* if serial not in self.serials: raise HOPSCommandException("Device not
\* found", command, -404)                              (read without the lock)
SendCommandKnown2(t) ==
    /\ thr[t].pc = "sc_known2"
    /\ thr' = [thr EXCEPT ![t] =
                 IF ~Known(thr[t].serial)
                 THEN Finish(t, "DeviceNotFound")
                 ELSE [@ EXCEPT !.pc = "sc_lock"]]
    /\ UNCHANGED <<attached, connections, serials, closed_serials, lock,
                   released,
                   replaced, laser, gmx, drv, DEVICES, app, mock, script,
                   mgr, ws>>

\* with self._lock: send_cohrhops_command(self._serials[serial], command)
\* enters CohrHOPS_SendCommand; the subscript raises KeyError when the serial
\* was evicted since the test above.
SendCommandLock(t) ==
    /\ thr[t].pc = "sc_lock"
    /\ IF Known(thr[t].serial)
       THEN /\ AcquireLock(t)
            /\ thr' = [thr EXCEPT ![t] =
                         [@ EXCEPT !.pc = "sc_s1_ret",
                                   !.handle = serials[thr[t].serial],
                                   !.nSend = @ + 1]]
       ELSE /\ lock = NoThread
            /\ UNCHANGED lock
            /\ thr' = [thr EXCEPT ![t] = Finish(t, "KeyError")]
    /\ UNCHANGED <<attached, connections, serials, closed_serials, released,
                   replaced,
                   laser, gmx, drv, DEVICES, app, mock, script, mgr, ws>>

\* send_write_command of thread u is between its two calls of send_command:
\* the write has returned and the read has not been answered.
BetweenHalves(u) ==
    \/ drv[u].pc = "wc_write" /\ thr[u].pc = "done" /\ thr[u].ret = "ok"
    \/ drv[u].pc = "wc_read" /\ thr[u].pc # "done"

\* The write command of the send_write_command thread u is in.
WrittenBy(u) ==
    CHOOSE name \in {"PCMD=", "KSWCMD=", "CMODECMD="} :
        drv[u].cmd.name \in {name, ReadOf(name)}

\* send_cohrhops_command returned COHRHOPS_OK: the head has taken the command
\* of thread t and the response buffer holds what came back.
Respond(t) ==
    IF drv[t].cmd = NoCommand
    THEN UNCHANGED <<laser, drv>>
    ELSE \E r \in Responses(drv[t].cmd), accepted \in BOOLEAN :
           /\ laser' = Execute(drv[t].cmd, accepted)
           /\ drv' = [u \in Threads |->
                        IF u = t THEN [drv[t] EXCEPT !.resp = r]
                        ELSE IF BetweenHalves(u) /\ accepted
                                /\ drv[t].cmd.name = WrittenBy(u)
                        THEN [drv[u] EXCEPT !.overtaken = TRUE]
                        ELSE drv[u]]

\* The first send returns: the response, or on a failure
\* self._initialize_device(self._serials[serial]) enters InitializeHandle.
SendReturn(t) ==
    /\ thr[t].pc = "sc_s1_ret"
    /\ \E res \in DllResults(thr[t].handle) :
         IF res = COHRHOPS_OK
         THEN /\ ReleaseLock(t)
              /\ thr' = [thr EXCEPT ![t] = Finish(t, "ok")]
              /\ Respond(t)
         ELSE /\ UNCHANGED <<lock, laser, drv>>
              /\ thr' = [thr EXCEPT ![t] =
                           [@ EXCEPT !.pc = "sc_init_ret", !.first = "fail",
                                     !.nInit = @ + 1]]
    /\ UNCHANGED <<attached, connections, serials, closed_serials, released,
                   replaced,
                   gmx, DEVICES, app, mock, script, mgr, ws>>

\* A faulty retry condition that ignores the result of the reinitialization.
RetryAlways(res) == TRUE

\* if self._initialize_device(...): the retry is made when the
\* reinitialization returned COHRHOPS_OK.
RetryAfterInit(res) == res = COHRHOPS_OK

\* _initialize_device returns: on success the retry enters SendCommand, on
\* failure _initialize_device enters CohrHOPS_Close(handle).
SendInitReturn(t) ==
    /\ thr[t].pc = "sc_init_ret"
    /\ \E res \in DllResults(thr[t].handle) :
         thr' = [thr EXCEPT ![t] =
                   [@ EXCEPT !.pc = IF RetryAfterInit(res) THEN "sc_s2_ret"
                                    ELSE "sc_initclose_ret",
                             !.nSend = IF RetryAfterInit(res) THEN @ + 1 ELSE @,
                             !.reinit = IF res = COHRHOPS_OK THEN "ok" ELSE "fail"]]
    /\ UNCHANGED <<attached, connections, serials, closed_serials, lock,
                   released,
                   replaced, laser, gmx, drv, DEVICES, app, mock, script,
                   mgr, ws>>

\* _initialize_device: its Close returns, return False; send_command goes on
\* to self._close(self._serials[serial]), entering CohrHOPS_Close again.
SendInitCloseReturn(t) ==
    /\ thr[t].pc = "sc_initclose_ret"
    /\ thr' = [thr EXCEPT ![t] = [@ EXCEPT !.pc = "sc_close_ret"]]
    /\ UNCHANGED <<attached, connections, serials, closed_serials, lock,
                   released,
                   replaced, laser, gmx, drv, DEVICES, app, mock, script,
                   mgr, ws>>

\* The retry returns: the response, or self._close(self._serials[serial])
\* enters CohrHOPS_Close.
ResendReturn(t) ==
    /\ thr[t].pc = "sc_s2_ret"
    /\ \E res \in DllResults(thr[t].handle) :
         IF res = COHRHOPS_OK
         THEN /\ ReleaseLock(t)
              /\ thr' = [thr EXCEPT ![t] = Finish(t, "ok")]
              /\ Respond(t)
         ELSE /\ UNCHANGED <<lock, laser, drv>>
              /\ thr' = [thr EXCEPT ![t] = [@ EXCEPT !.pc = "sc_close_ret"]]
    /\ UNCHANGED <<attached, connections, serials, closed_serials, released,
                   replaced,
                   gmx, DEVICES, app, mock, script, mgr, ws>>

\* A faulty eviction that leaves the serial mapped.
KeepSerial(s) == serials

\* A faulty eviction that drops the whole map.
EvictAll(s) == <<>>

\* del self._serials[serial]
Evict(s) == MapDel(serials, s)

\* self._close returns; del self._serials[serial]; raise
\* HOPSCommandException("Error sending command", command, -500)
SendCloseReturn(t) ==
    /\ thr[t].pc = "sc_close_ret"
    /\ serials' = Evict(thr[t].serial)
    /\ ReleaseLock(t)
    /\ thr' = [thr EXCEPT ![t] = Finish(t, "CommandError")]
    /\ UNCHANGED <<attached, connections, closed_serials, released, replaced,
                   laser,
                   gmx, drv, DEVICES, app, mock, script, mgr, ws>>

\* ---------------------------------------------------------- close_device
\* with self._lock: self._closed_serials.add(serial)
CloseDevice(t) ==
    /\ thr[t].pc = "cd_lock"
    /\ lock = NoThread
    /\ closed_serials' = closed_serials \cup {thr[t].serial}
    /\ released' = released \cup {thr[t].serial}
    /\ thr' = [thr EXCEPT ![t] = Finish(t, "ok")]
    /\ UNCHANGED <<attached, connections, serials, lock, replaced, laser,
                   gmx, drv, DEVICES, app, mock, script, mgr, ws>>

\* ----------------------------------------------------------------- close
\* self.log.debug(f"... {len(self._connections)} handles to close.")
CloseLog(t) ==
    /\ thr[t].pc = "cl_log"
    /\ thr' = [thr EXCEPT ![t] = [@ EXCEPT !.pc = "cl_lock"]]
    /\ UNCHANGED <<attached, connections, serials, closed_serials, lock,
                   released,
                   replaced, laser, gmx, drv, DEVICES, app, mock, script,
                   mgr, ws>>

\* with self._lock: for handle in self._connections: the iteration goes
\* through __getitem__ over the whole array; the first self._close(handle)
\* enters CohrHOPS_Close.
CloseLock(t) ==
    /\ thr[t].pc = "cl_lock"
    /\ AcquireLock(t)
    /\ thr' = [thr EXCEPT ![t] =
                 [@ EXCEPT !.pc = "cl_close_ret", !.i = 0, !.handle = HandleAt(0)]]
    /\ UNCHANGED <<attached, connections, serials, closed_serials, released,
                   replaced,
                   laser, gmx, drv, DEVICES, app, mock, script, mgr, ws>>

\* self._close(handle) returns; the next slot, or the end of the array
\* (IndexError ends the for loop) and of the with block.
CloseLoopReturn(t) ==
    /\ thr[t].pc = "cl_close_ret"
    /\ IF thr[t].i + 1 < MAX_DEVICES
       THEN /\ thr' = [thr EXCEPT ![t] =
                         [@ EXCEPT !.i = @ + 1, !.handle = HandleAt(thr[t].i + 1)]]
            /\ UNCHANGED lock
       ELSE /\ thr' = [thr EXCEPT ![t] = Finish(t, "ok")]
            /\ ReleaseLock(t)
    /\ UNCHANGED <<attached, connections, serials, closed_serials, released,
                   replaced,
                   laser, gmx, drv, DEVICES, app, mock, script, mgr, ws>>

\* ------------------------------------------------- lib2.py: discover
\* lib2.py CohrHOPSManager.discover: max_attempts = 5; attempts = 0
CallDiscoverRetry(t) ==
    /\ thr[t].pc = "idle"
    /\ thr' = [thr EXCEPT ![t] =
                 [IdleThread EXCEPT !.pc = "l2_loop", !.op = "lib2_discover",
                                    !.nDisc = 1]]
    /\ UNCHANGED <<attached, connections, serials, closed_serials, lock,
                   released,
                   replaced, laser, gmx, drv, DEVICES, app, mock, script,
                   mgr, ws>>

\* while attempts < max_attempts
RetryBudgetLeft(attempts) == attempts < max_attempts

\* while attempts < max_attempts: self._refresh_connected_handles() enters
\* CohrHOPS_CheckForDevices; when the loop condition fails the test after the
\* loop follows.
RetryLoop(t) ==
    /\ thr[t].pc = "l2_loop"
    /\ thr' = [thr EXCEPT ![t] =
                 IF RetryBudgetLeft(thr[t].attempts)
                 THEN [@ EXCEPT !.pc = "l2_refresh_ret", !.nRefresh = @ + 1]
                 ELSE [@ EXCEPT !.pc = "l2_len"]]
    /\ UNCHANGED <<attached, connections, serials, closed_serials, lock,
                   released,
                   replaced, laser, gmx, drv, DEVICES, app, mock, script,
                   mgr, ws>>

\* _refresh_connected_handles returns inside the loop: the handle set it
\* found is in self._connections, or HOPSException is raised.
RetryRefreshReturn(t) ==
    /\ thr[t].pc = "l2_refresh_ret"
    /\ \E res \in {COHRHOPS_OK, COHRHOPS_INVALID_HEAD} :
         IF res # COHRHOPS_OK
         THEN /\ thr' = [thr EXCEPT ![t] = Finish(t, "CheckError")]
              /\ UNCHANGED connections
         ELSE /\ connections' = ConnectedHandles
              /\ thr' = [thr EXCEPT ![t] =
                           [@ EXCEPT !.pc = "l2_brk",
                                     !.allEmpty = @ /\ ConnectedHandles = <<>>]]
    /\ UNCHANGED <<attached, serials, closed_serials, lock, released, replaced,
                   laser, gmx, drv, DEVICES, app, mock, script, mgr, ws>>

\* if len(self._connections) > 0: break; else the warning and time.sleep
RetryBreak(t) ==
    /\ thr[t].pc = "l2_brk"
    /\ thr' = [thr EXCEPT ![t] =
                 IF Len(connections) > 0
                 THEN [@ EXCEPT !.pc = "l2_len"]
                 ELSE [@ EXCEPT !.pc = "l2_sleep"]]
    /\ UNCHANGED <<attached, connections, serials, closed_serials, lock,
                   released,
                   replaced, laser, gmx, drv, DEVICES, app, mock, script,
                   mgr, ws>>

\* time.sleep(timeout) is over; attempts += 1
RetrySleep(t) ==
    /\ thr[t].pc = "l2_sleep"
    /\ thr' = [thr EXCEPT ![t] = [@ EXCEPT !.pc = "l2_loop", !.attempts = @ + 1]]
    /\ UNCHANGED <<attached, connections, serials, closed_serials, lock,
                   released,
                   replaced, laser, gmx, drv, DEVICES, app, mock, script,
                   mgr, ws>>

\* if len(self._connections) == 0: raise HOPSException("No devices found
\* after 5 attempts."); else self._refresh_serials()
RetryCheckLen(t) ==
    /\ thr[t].pc = "l2_len"
    /\ thr' = [thr EXCEPT ![t] =
                 IF Len(connections) = 0
                 THEN Finish(t, "NoDevicesFound")
                 ELSE [@ EXCEPT !.pc = "rs_lock", !.attempts = 0, !.nRefresh = 0,
                                !.allEmpty = TRUE]]
    /\ UNCHANGED <<attached, connections, serials, closed_serials, lock,
                   released,
                   replaced, laser, gmx, drv, DEVICES, app, mock, script,
                   mgr, ws>>

\* ============================== genesis/driver.py: GenesisMX(CohrHOPSDevice)
\* The variables of the manager and of the interface behind it.
managerVars ==
    <<attached, connections, serials, closed_serials, lock, released, replaced>>

\* CohrHOPSDevice.send_command: return self._manager.send_command(self.serial,
\* command); the command itself is in drv[t].cmd.
EnterSend(t) ==
    thr' = [thr EXCEPT ![t] =
              [IdleThread EXCEPT !.pc = "sc_known1", !.op = "send_command",
                                 !.serial = DeviceSerial]]

\* The method has taken the response or the exception of send_command.
LeaveSend(t) == thr' = [thr EXCEPT ![t] = IdleThread]

\* float(response), int(response), int(res, 16): the number, or ValueError.
ParseNumber(r) ==
    IF r.k = "num" THEN Returns(Float(r.n)) ELSE Raises("ValueError")

\* send_read_command: ret is how self.send_command ended, r its response.
send_read_command(ret, r) ==
    IF ret = "ok" THEN Returns(r)
    ELSE IF ret \in HOPSCommandExceptions THEN Returns(None)
    ELSE Raises(ret)

\* send_read_bool_command: return response == "1"
send_read_bool_command(ret, r) ==
    IF ret = "ok" THEN Returns(Bool(r = Num(1)))
    ELSE IF ret \in HOPSCommandExceptions THEN Returns(None)
    ELSE Raises(ret)

\* send_read_float_command: if response := ...: return float(response)
send_read_float_command(ret, r) ==
    IF ret = "ok" THEN (IF Truthy(r) THEN ParseNumber(r) ELSE Returns(None))
    ELSE IF ret \in HOPSCommandExceptions THEN Returns(None)
    ELSE Raises(ret)

\* send_read_int_command: if response := ...: return int(response)
send_read_int_command(ret, r) ==
    IF ret = "ok" THEN (IF Truthy(r) THEN ParseNumber(r) ELSE Returns(None))
    ELSE IF ret \in HOPSCommandExceptions THEN Returns(None)
    ELSE Raises(ret)

\* The four typed read accessors.
Accessors == {"str", "bool", "float", "int"}

Accessor(acc, ret, r) ==
    CASE acc = "str" -> send_read_command(ret, r)
      [] acc = "bool" -> send_read_bool_command(ret, r)
      [] acc = "float" -> send_read_float_command(ret, r)
      [] acc = "int" -> send_read_int_command(ret, r)

\* A command each accessor is used with: ReadCmd.HEAD_TYPE,
\* ReadCmd.INTERLOCK_STATUS, ReadWriteCmd.POWER_SETPOINT, ReadWriteCmd.MODE.
ReadCommand(acc) ==
    CASE acc = "str" -> "?HTYPE"
      [] acc = "bool" -> "?INT"
      [] acc = "float" -> "?PCMD"
      [] acc = "int" -> "?CMODE"

\* The call of thread t into the instance ends with outcome o; w is what its
\* send_write_command returned, if it went that far.
DrvFinish(t, o, w) ==
    [IdleDriver EXCEPT !.pc = "done", !.op = drv[t].op,
                       !.out = IF o.exc = "none" THEN "return" ELSE "raise",
                       !.exc = o.exc, !.result = o.val, !.wret = w,
                       !.wval = drv[t].wval, !.overtaken = drv[t].overtaken]

\* The caller takes the result of the finished method.
DrvReturn(t) ==
    /\ drv[t].pc = "done"
    /\ drv' = [drv EXCEPT ![t] = IdleDriver]
    /\ UNCHANGED <<managerVars, thr, laser, gmx, DEVICES, app, mock, script,
                   mgr, ws>>

\* ---------------------------------------------------- the read accessors
\* send_read_command / _bool_ / _float_ / _int_command(cmd) is called.
CallRead(t, acc) ==
    /\ drv[t].pc = "idle" /\ thr[t].pc = "idle"
    /\ drv' = [drv EXCEPT ![t] =
                 [IdleDriver EXCEPT !.pc = "rd", !.op = "read", !.acc = acc,
                                    !.cmd = Command(ReadCommand(acc), 0)]]
    /\ EnterSend(t)
    /\ UNCHANGED <<managerVars, laser, gmx, DEVICES, app, mock, script, mgr,
                   ws>>

\* self.send_command has ended: the accessor returns or raises.
ReadDone(t) ==
    /\ drv[t].pc = "rd" /\ thr[t].pc = "done"
    /\ drv' = [drv EXCEPT ![t] =
                 DrvFinish(t, Accessor(drv[t].acc, thr[t].ret, drv[t].resp), None)]
    /\ LeaveSend(t)
    /\ UNCHANGED <<managerVars, laser, gmx, DEVICES, app, mock, script, mgr,
                   ws>>

\* ---------------------------------------------------- send_write_command
\* A faulty result that hands back the requested value.
RequestedValue(value, new_value) == value

\* send_write_command: return new_value (a mismatch is only logged).
Readback(value, new_value) == new_value

\* send_write_command after the write was sent: the read command has ended
\* with ret and response r.
WriteResult(ret, r, value) ==
    IF ret = "ok"
    THEN IF Truthy(r)
         THEN IF ParseNumber(r).exc = "none"
              THEN Returns(Float(Readback(value, ParseNumber(r).val.n)))
              ELSE Returns(None)
         ELSE Returns(None)
    ELSE IF ret \in HOPSCommandExceptions THEN Returns(None)
    ELSE Raises(ret)

\* send_write_command when the write command ended with the exception ret:
\* except (HOPSCommandException, ValueError): log the error, return None;
\* any other exception leaves the method.
WriteFailed(ret) ==
    IF ret \in HOPSCommandExceptions THEN Returns(None) ELSE Raises(ret)

\* send_write_command: self.send_command(command=cmd.write(value)) is entered.
EnterWrite(t, name, value) ==
    /\ drv' = [drv EXCEPT ![t] =
                 [@ EXCEPT !.pc = "wc_write", !.cmd = Command(name, value),
                           !.wval = value, !.nWrite = @ + 1]]
    /\ EnterSend(t)

\* The write has ended: the read command is sent next; HOPSCommandException
\* is caught and logged, and the setter that called returns.
WriteSent(t) ==
    /\ drv[t].pc = "wc_write" /\ thr[t].pc = "done"
    /\ IF thr[t].ret = "ok"
       THEN /\ drv' = [drv EXCEPT ![t] =
                         [@ EXCEPT !.pc = "wc_read",
                                   !.cmd = Command(ReadOf(drv[t].cmd.name), 0)]]
            /\ EnterSend(t)
       ELSE /\ drv' = [drv EXCEPT ![t] = DrvFinish(t, WriteFailed(thr[t].ret), None)]
            /\ LeaveSend(t)
    /\ UNCHANGED <<managerVars, laser, gmx, DEVICES, app, mock, script, mgr,
                   ws>>

\* The read has ended: send_write_command returns and so does the setter.
ReadbackDone(t) ==
    /\ drv[t].pc = "wc_read" /\ thr[t].pc = "done"
    /\ LET w == WriteResult(thr[t].ret, drv[t].resp, drv[t].wval) IN
         /\ drv' = [drv EXCEPT ![t] =
                      DrvFinish(t, IF w.exc = "none" THEN Returns(None) ELSE w,
                                w.val)]
         /\ gmx' = IF w.exc = "none" /\ drv[t].op = "set_power_setpoint"
                   THEN [gmx EXCEPT !.lastSet = [x |-> drv[t].arg,
                                                 n |-> drv[t].wval]]
                   ELSE gmx
    /\ LeaveSend(t)
    /\ UNCHANGED <<managerVars, laser, DEVICES, app, mock, script, mgr, ws>>

\* -------------------------------------------------- info and unit_factor
\* head_type2unit_factor.get(head_type, 1), and 1 for no head type.
head_type2unit_factor(head_type) ==
    IF Truthy(head_type) /\ head_type = Text("MiniX") THEN 1000 ELSE 1

\* info: the head type was read; head_hours is read next
\* (serial2wavelength[self.serial[0]] is 488 for DeviceSerial).
InfoHeadType(t) ==
    /\ drv[t].pc = "info_htype" /\ thr[t].pc = "done"
    /\ LET o == send_read_command(thr[t].ret, drv[t].resp) IN
         IF o.exc # "none"
         THEN /\ drv' = [drv EXCEPT ![t] = DrvFinish(t, o, None)]
              /\ LeaveSend(t)
         ELSE /\ drv' = [drv EXCEPT ![t] =
                           [@ EXCEPT !.pc = "info_hh", !.head_type = o.val,
                                     !.cmd = Command("?HH", 0)]]
              /\ EnterSend(t)
    /\ UNCHANGED <<managerVars, laser, gmx, DEVICES, app, mock, script, mgr,
                   ws>>

\* info: the head hours were read; head_board_revision is read next.
InfoHeadHours(t) ==
    /\ drv[t].pc = "info_hh" /\ thr[t].pc = "done"
    /\ LET o == send_read_command(thr[t].ret, drv[t].resp) IN
         IF o.exc # "none"
         THEN /\ drv' = [drv EXCEPT ![t] = DrvFinish(t, o, None)]
              /\ LeaveSend(t)
         ELSE /\ drv' = [drv EXCEPT ![t] =
                           [@ EXCEPT !.pc = "info_hbdrev", !.head_hours = o.val,
                                     !.cmd = Command("?HBDREV", 0)]]
              /\ EnterSend(t)
    /\ UNCHANGED <<managerVars, laser, gmx, DEVICES, app, mock, script, mgr,
                   ws>>

\* info: the board revision was read and info is cached.  info returns the
\* record; unit_factor caches and returns its factor; the power_setpoint
\* getter returns power_setpoint / self.unit_factor, the setter enters
\* send_write_command(POWER_SETPOINT, power_setpoint * self.unit_factor).
InfoBoardRevision(t) ==
    /\ drv[t].pc = "info_hbdrev" /\ thr[t].pc = "done"
    /\ LET o == send_read_command(thr[t].ret, drv[t].resp)
           f == head_type2unit_factor(drv[t].head_type)
           i == GenesisMXInfo(drv[t].head_type, drv[t].head_hours, o.val)
       IN  IF o.exc # "none"
           THEN /\ drv' = [drv EXCEPT ![t] = DrvFinish(t, o, None)]
                /\ LeaveSend(t)
                /\ UNCHANGED gmx
           ELSE IF drv[t].op = "info"
           THEN /\ gmx' = [gmx EXCEPT !.info = i, !.fetched = TRUE]
                /\ drv' = [drv EXCEPT ![t] =
                             [DrvFinish(t, Returns(None), None) EXCEPT
                                !.rinfo = i]]
                /\ LeaveSend(t)
           ELSE /\ gmx' = [gmx EXCEPT !.info = i, !.fetched = TRUE,
                                      !.unit_factor = f]
                /\ CASE drv[t].op = "unit_factor" ->
                          /\ drv' = [drv EXCEPT ![t] =
                                       DrvFinish(t, Returns(Num(f)), None)]
                          /\ LeaveSend(t)
                     [] drv[t].op = "get_power_setpoint" ->
                          /\ drv' = [drv EXCEPT ![t] =
                                       DrvFinish(t, Returns(Float(drv[t].val.n \div f)),
                                                 None)]
                          /\ LeaveSend(t)
                     [] OTHER -> EnterWrite(t, "PCMD=", drv[t].arg * f)
    /\ UNCHANGED <<managerVars, laser, DEVICES, app, mock, script, mgr, ws>>

\* The head has run for another hour.
HeadHoursChange ==
    /\ laser.hh = "100"
    /\ laser' = [laser EXCEPT !.hh = "101"]
    /\ UNCHANGED <<managerVars, thr, gmx, drv, DEVICES, app, mock, script,
                   mgr, ws>>

\* The unit factor the instance has without reading the head: the cached
\* one, or the one computed from a cached info; 0 when info is to be read.
CachedUnitFactor ==
    IF gmx.unit_factor # 0 THEN gmx.unit_factor
    ELSE IF gmx.info.cached THEN head_type2unit_factor(gmx.info.head_type)
    ELSE 0

\* self.info: the cached record, or the three reads of the property.
CallInfo(t) ==
    /\ drv[t].pc = "idle" /\ thr[t].pc = "idle"
    /\ LET d == [IdleDriver EXCEPT !.op = "info"] IN
         IF gmx.info.cached
         THEN /\ drv' = [drv EXCEPT ![t] =
                           [d EXCEPT !.pc = "done", !.out = "return",
                                     !.rinfo = gmx.info, !.hit = TRUE]]
              /\ UNCHANGED thr
         ELSE /\ drv' = [drv EXCEPT ![t] =
                           [d EXCEPT !.pc = "info_htype",
                                     !.cmd = Command("?HTYPE", 0)]]
              /\ EnterSend(t)
    /\ UNCHANGED <<managerVars, laser, gmx, DEVICES, app, mock, script, mgr,
                   ws>>

\* self.unit_factor: the cached factor, or the factor of self.info.
CallUnitFactor(t) ==
    /\ drv[t].pc = "idle" /\ thr[t].pc = "idle"
    /\ LET d == [IdleDriver EXCEPT !.op = "unit_factor"] IN
         IF CachedUnitFactor # 0
         THEN /\ drv' = [drv EXCEPT ![t] =
                           [d EXCEPT !.pc = "done", !.out = "return",
                                     !.result = Num(CachedUnitFactor),
                                     !.hit = TRUE]]
              /\ gmx' = [gmx EXCEPT !.unit_factor = CachedUnitFactor]
              /\ UNCHANGED thr
         ELSE /\ drv' = [drv EXCEPT ![t] =
                           [d EXCEPT !.pc = "info_htype",
                                     !.cmd = Command("?HTYPE", 0)]]
              /\ EnterSend(t)
              /\ UNCHANGED gmx
    /\ UNCHANGED <<managerVars, laser, DEVICES, app, mock, script, mgr, ws>>

\* --------------------------------------------------------- power_setpoint
\* The setpoints (mW) a caller asks for.
Setpoints == {0, 1000}

\* power_setpoint.setter: self.send_write_command(cmd=POWER_SETPOINT,
\* value=power_setpoint * self.unit_factor); unit_factor is computed first.
CallSetPowerSetpoint(t, x) ==
    /\ drv[t].pc = "idle" /\ thr[t].pc = "idle"
    /\ LET d == [IdleDriver EXCEPT !.op = "set_power_setpoint", !.arg = x] IN
         IF CachedUnitFactor # 0
         THEN /\ drv' = [drv EXCEPT ![t] =
                           [d EXCEPT !.pc = "wc_write",
                                     !.cmd = Command("PCMD=", x * CachedUnitFactor),
                                     !.wval = x * CachedUnitFactor, !.nWrite = 1]]
              /\ EnterSend(t)
         ELSE /\ drv' = [drv EXCEPT ![t] =
                           [d EXCEPT !.pc = "info_htype",
                                     !.cmd = Command("?HTYPE", 0)]]
              /\ EnterSend(t)
    /\ gmx' = [gmx EXCEPT !.unit_factor = CachedUnitFactor]
    /\ UNCHANGED <<managerVars, laser, DEVICES, app, mock, script, mgr, ws>>

\* power_setpoint getter: self.send_read_float_command(POWER_SETPOINT)
CallGetPowerSetpoint(t) ==
    /\ drv[t].pc = "idle" /\ thr[t].pc = "idle"
    /\ drv' = [drv EXCEPT ![t] =
                 [IdleDriver EXCEPT !.pc = "gp_read", !.op = "get_power_setpoint",
                                    !.acc = "float", !.cmd = Command("?PCMD", 0)]]
    /\ EnterSend(t)
    /\ UNCHANGED <<managerVars, laser, gmx, DEVICES, app, mock, script, mgr,
                   ws>>

\* if power_setpoint := ...: return power_setpoint / self.unit_factor;
\* return None.  unit_factor is the cached value, or info is read first.
GetPowerRead(t) ==
    /\ drv[t].pc = "gp_read" /\ thr[t].pc = "done"
    /\ LET o == send_read_float_command(thr[t].ret, drv[t].resp) IN
         IF o.exc # "none"
         THEN /\ drv' = [drv EXCEPT ![t] = DrvFinish(t, o, None)]
              /\ LeaveSend(t)
              /\ UNCHANGED gmx
         ELSE IF ~Truthy(o.val)
         THEN /\ drv' = [drv EXCEPT ![t] = DrvFinish(t, Returns(None), None)]
              /\ LeaveSend(t)
              /\ UNCHANGED gmx
         ELSE IF CachedUnitFactor # 0
         THEN /\ drv' = [drv EXCEPT ![t] =
                           DrvFinish(t, Returns(Float(o.val.n \div CachedUnitFactor)),
                                     None)]
              /\ LeaveSend(t)
              /\ gmx' = [gmx EXCEPT !.unit_factor = CachedUnitFactor]
         ELSE /\ drv' = [drv EXCEPT ![t] =
                           [@ EXCEPT !.pc = "info_htype", !.val = o.val,
                                     !.cmd = Command("?HTYPE", 0)]]
              /\ EnterSend(t)
              /\ UNCHANGED gmx
    /\ UNCHANGED <<managerVars, laser, DEVICES, app, mock, script, mgr, ws>>

\* -------------------------------------------------------- software_switch
\* software_switch.setter(state): if not self.interlock ...
EnterSoftwareSwitch(t, op, state) ==
    /\ drv[t].pc = "idle" /\ thr[t].pc = "idle"
    /\ drv' = [drv EXCEPT ![t] =
                 [IdleDriver EXCEPT !.pc = "sw_int", !.op = op, !.arg = state,
                                    !.acc = "bool", !.cmd = Command("?INT", 0)]]
    /\ EnterSend(t)
    /\ UNCHANGED <<managerVars, laser, gmx, DEVICES, app, mock, script, mgr,
                   ws>>

\* enable: self.software_switch = True         (int(state) is 1)
CallEnable(t) == EnterSoftwareSwitch(t, "enable", 1)

\* disable: self.software_switch = False       (int(state) is 0)
CallDisable(t) == EnterSoftwareSwitch(t, "disable", 0)

\* The first operand of `not self.interlock or not self.key_switch` is known:
\* a false or absent interlock goes to the log line, which reads
\* self.interlock again; otherwise self.key_switch is read.
SwitchInterlock(t) ==
    /\ drv[t].pc = "sw_int" /\ thr[t].pc = "done"
    /\ LET o == send_read_bool_command(thr[t].ret, drv[t].resp) IN
         IF o.exc # "none"
         THEN /\ drv' = [drv EXCEPT ![t] = DrvFinish(t, o, None)]
              /\ LeaveSend(t)
         ELSE /\ drv' = [drv EXCEPT ![t] =
                           [@ EXCEPT !.pc = IF Truthy(o.val) THEN "sw_key"
                                            ELSE "sw_log_int",
                                     !.vInt = o.val,
                                     !.cmd = Command(IF Truthy(o.val) THEN "?KSW"
                                                     ELSE "?INT", 0)]]
              /\ EnterSend(t)
    /\ UNCHANGED <<managerVars, laser, gmx, DEVICES, app, mock, script, mgr,
                   ws>>

\* The second operand is known: a false or absent key switch goes to the log
\* line; otherwise send_write_command(SOFTWARE_SWITCH, int(state)) is entered.
SwitchKey(t) ==
    /\ drv[t].pc = "sw_key" /\ thr[t].pc = "done"
    /\ LET o == send_read_bool_command(thr[t].ret, drv[t].resp) IN
         IF o.exc # "none"
         THEN /\ drv' = [drv EXCEPT ![t] = DrvFinish(t, o, None)]
              /\ LeaveSend(t)
         ELSE IF ~Truthy(o.val)
         THEN /\ drv' = [drv EXCEPT ![t] =
                           [@ EXCEPT !.pc = "sw_log_int", !.vKey = o.val,
                                     !.cmd = Command("?INT", 0)]]
              /\ EnterSend(t)
         ELSE /\ drv' = [drv EXCEPT ![t] =
                           [@ EXCEPT !.pc = "wc_write", !.vKey = o.val,
                                     !.cmd = Command("KSWCMD=", drv[t].arg),
                                     !.wval = drv[t].arg, !.nWrite = @ + 1]]
              /\ EnterSend(t)
    /\ UNCHANGED <<managerVars, laser, gmx, DEVICES, app, mock, script, mgr,
                   ws>>

\* self.log.error(f"Cannot enable: interlock={self.interlock}, ..."): the
\* interlock was read for the message; the key switch is read next.
SwitchLogInterlock(t) ==
    /\ drv[t].pc = "sw_log_int" /\ thr[t].pc = "done"
    /\ LET o == send_read_bool_command(thr[t].ret, drv[t].resp) IN
         IF o.exc # "none"
         THEN /\ drv' = [drv EXCEPT ![t] = DrvFinish(t, o, None)]
              /\ LeaveSend(t)
         ELSE /\ drv' = [drv EXCEPT ![t] =
                           [@ EXCEPT !.pc = "sw_log_key",
                                     !.cmd = Command("?KSW", 0)]]
              /\ EnterSend(t)
    /\ UNCHANGED <<managerVars, laser, gmx, DEVICES, app, mock, script, mgr,
                   ws>>

\* The key switch was read for the message: the error is logged; return.
SwitchLogKey(t) ==
    /\ drv[t].pc = "sw_log_key" /\ thr[t].pc = "done"
    /\ LET o == send_read_bool_command(thr[t].ret, drv[t].resp) IN
         drv' = [drv EXCEPT ![t] =
                   DrvFinish(t, IF o.exc # "none" THEN o ELSE Returns(None), None)]
    /\ LeaveSend(t)
    /\ UNCHANGED <<managerVars, laser, gmx, DEVICES, app, mock, script, mgr,
                   ws>>

\* The interlock circuit opens or closes.
InterlockChange ==
    /\ laser' = [laser EXCEPT !.int = ~@]
    /\ UNCHANGED <<managerVars, thr, gmx, drv, DEVICES, app, mock, script,
                   mgr, ws>>

\* The key is turned.
KeyChange ==
    /\ laser' = [laser EXCEPT !.key = ~@]
    /\ UNCHANGED <<managerVars, thr, gmx, drv, DEVICES, app, mock, script,
                   mgr, ws>>

\* class OperationMode(Enum): PHOTO, CURRENT
PHOTO == 0
CURRENT == 1

\* ------------------------------------------------------------------ alarms
NO_FAULT == 0
OVER_CURRENT == 3

\* class Alarm(Enum): the fault values 0x0000 .. 0x0011 in definition order.
Alarm == [i \in 1..18 |-> i - 1]

\* The lowest bit of code & fault.value[0] only.
BitAndLow(a, b) == (a % 2) * (b % 2)

\* code & fault.value[0]
RECURSIVE BitAnd(_, _)
BitAnd(a, b) ==
    IF a = 0 \/ b = 0 THEN 0
    ELSE (a % 2) * (b % 2) + 2 * BitAnd(a \div 2, b \div 2)

\* Alarm.from_code
from_code(code) ==
    LET faults == SelectSeq(Alarm, LAMBDA fault : BitAnd(code, fault) # 0)
    IN  IF faults # <<>> THEN faults ELSE <<NO_FAULT>>

\* alarms: res = self.send_read_command(FAULT_CODE); if res is not None and
\* (fault_code_value := int(res, 16)): return Alarm.from_code(...); else the
\* property ends without a return statement.
alarms(ret, r) ==
    LET o == send_read_command(ret, r) IN
        IF o.exc # "none" THEN o
        ELSE IF o.val = None THEN Returns(None)
        ELSE IF ParseNumber(o.val).exc # "none" THEN ParseNumber(o.val)
        ELSE IF ParseNumber(o.val).val.n # 0
             THEN Returns(List(from_code(ParseNumber(o.val).val.n)))
        ELSE Returns(None)

\* The fault codes the head reports: the enumerated fault values.
FaultCodes == {Alarm[i] : i \in DOMAIN Alarm}

CallAlarms(t) ==
    /\ drv[t].pc = "idle" /\ thr[t].pc = "idle"
    /\ drv' = [drv EXCEPT ![t] =
                 [IdleDriver EXCEPT !.pc = "al_read", !.op = "alarms",
                                    !.acc = "str", !.cmd = Command("?FF", 0)]]
    /\ EnterSend(t)
    /\ UNCHANGED <<managerVars, laser, gmx, DEVICES, app, mock, script, mgr,
                   ws>>

AlarmsRead(t) ==
    /\ drv[t].pc = "al_read" /\ thr[t].pc = "done"
    /\ drv' = [drv EXCEPT ![t] =
                 DrvFinish(t, alarms(thr[t].ret, drv[t].resp), None)]
    /\ LeaveSend(t)
    /\ UNCHANGED <<managerVars, laser, gmx, DEVICES, app, mock, script, mgr,
                   ws>>

\* -------------------------------------------------------------------- mode
\* OperationMode(value): the member of that value (True is 1, False is 0),
\* or ValueError.
OperationMode(value) ==
    IF value.k \in {"num", "float", "bool"} /\ value.n \in {PHOTO, CURRENT}
    THEN Returns(Num(value.n))
    ELSE Raises("ValueError")

\* mode (getter): if mode := self.send_read_int_command(MODE) is not None:
\* return OperationMode(mode); return None.  The walrus binds the whole
\* comparison: mode is the bool (response is not None).
mode(ret, r) ==
    LET o == send_read_int_command(ret, r) IN
        IF o.exc # "none" THEN o
        ELSE IF o.val # None THEN OperationMode(Bool(o.val # None))
        ELSE Returns(None)

\* laser.mode is read.
CallGetMode(t) ==
    /\ drv[t].pc = "idle" /\ thr[t].pc = "idle"
    /\ drv' = [drv EXCEPT ![t] =
                 [IdleDriver EXCEPT !.pc = "md_read", !.op = "mode",
                                    !.acc = "int", !.cmd = Command("?CMODE", 0)]]
    /\ EnterSend(t)
    /\ UNCHANGED <<managerVars, laser, gmx, DEVICES, app, mock, script, mgr,
                   ws>>

\* The read of the mode has ended: the getter returns or raises.
ModeRead(t) ==
    /\ drv[t].pc = "md_read" /\ thr[t].pc = "done"
    /\ drv' = [drv EXCEPT ![t] =
                 DrvFinish(t, mode(thr[t].ret, drv[t].resp), None)]
    /\ LeaveSend(t)
    /\ UNCHANGED <<managerVars, laser, gmx, DEVICES, app, mock, script, mgr,
                   ws>>

\* laser.mode = m: self.send_write_command(cmd=MODE, value=mode.value)
CallSetMode(t, m) ==
    /\ drv[t].pc = "idle" /\ thr[t].pc = "idle"
    /\ drv' = [drv EXCEPT ![t] =
                 [IdleDriver EXCEPT !.pc = "wc_write", !.op = "set_mode",
                                    !.arg = m, !.cmd = Command("CMODECMD=", m),
                                    !.wval = m, !.nWrite = 1]]
    /\ EnterSend(t)
    /\ UNCHANGED <<managerVars, laser, gmx, DEVICES, app, mock, script, mgr,
                   ws>>

\* ======================================================= api.py: DEVICES
\* The most GenesisMX instances the requests construct.
MaxInstances == 4

\* The request of thread t.
Request(t) == app.call[t]

\* get_cohrhops_manager().discover() is entered.
EnterDiscover(t) ==
    thr' = [thr EXCEPT ![t] =
              [IdleThread EXCEPT !.pc = "refresh_ret", !.op = "discover",
                                 !.nDisc = 1]]

\* A loop that registers no serial of the list.
ConstructedNone(found) == NoDevices

\* An order of the serials, to name the instances made in one loop.
SerialOrder ==
    CHOOSE f \in [Serials -> 1..Cardinality(Serials)] :
        \A x, y \in Serials : x # y => f[x] # f[y]

\* for serial in ...discover(): DEVICES[serial] = GenesisMX(serial), into the
\* cleared DEVICES: a new instance for each serial of the list found.
Constructed(found) ==
    [s \in Serials |->
       IF s \in found
       THEN app.made + Cardinality({x \in found : SerialOrder[x] <= SerialOrder[s]})
       ELSE NoDevice]

\* The request ends by returning.
RequestReturns(t, device, found) ==
    [IdleRequest EXCEPT !.pc = "done", !.op = Request(t).op,
                        !.serial = Request(t).serial, !.out = "return",
                        !.device = device, !.serials = found,
                        !.nDiscover = Request(t).nDiscover]

\* The request ends by raising.
RequestRaises(t, e) ==
    [IdleRequest EXCEPT !.pc = "done", !.op = Request(t).op,
                        !.serial = Request(t).serial, !.out = "raise", !.exc = e,
                        !.nDiscover = Request(t).nDiscover]

\* lifespan, before the yield: await run_in_threadpool(run_discovery);
\* run_discovery: DEVICES.clear(), then discover() is entered.
CallLifespan(t) ==
    /\ app.phase = "init"
    /\ Request(t).pc = "idle" /\ thr[t].pc = "idle" /\ drv[t].pc = "idle"
    /\ DEVICES' = NoDevices
    /\ app' = [app EXCEPT !.phase = "startup",
                          !.call[t] = [IdleRequest EXCEPT !.pc = "rd_discover",
                                                          !.op = "lifespan",
                                                          !.nDiscover = 1]]
    /\ EnterDiscover(t)
    /\ UNCHANGED <<managerVars, laser, gmx, drv, mock, script, mgr, ws>>

\* list_devices: if not DEVICES: run_discovery(); serials =
\* list(DEVICES.keys()).  A registry with a key answers from DEVICES.
CallListDevices(t) ==
    /\ app.phase = "running"
    /\ Request(t).pc = "idle" /\ thr[t].pc = "idle" /\ drv[t].pc = "idle"
    /\ LET r == [IdleRequest EXCEPT !.op = "list_devices"] IN
         IF Registered # {}
         THEN /\ app' = [app EXCEPT !.call[t] =
                           [r EXCEPT !.pc = "done", !.out = "return",
                                     !.serials = Registered]]
              /\ UNCHANGED <<thr, DEVICES>>
         ELSE /\ DEVICES' = NoDevices
              /\ app' = [app EXCEPT !.call[t] =
                           [r EXCEPT !.pc = "rd_discover", !.nDiscover = 1]]
              /\ EnterDiscover(t)
    /\ UNCHANGED <<managerVars, laser, gmx, drv, mock, script, mgr, ws>>

\* run_discovery: discover() has ended.  In api.py its exception leaves
\* run_discovery (and the lifespan or list_devices); server.py logs it
\* (except Exception; mock is False) and goes on with DEVICES empty.  The
\* list of discover() fills DEVICES.  list_devices then raises
\* HTTPException(404) for no serial, or returns the keys.
RunDiscoveryDone(t) ==
    /\ Request(t).pc = "rd_discover" /\ thr[t].pc = "done"
    /\ IF thr[t].ret # "ok" /\ app.module = "api"
       THEN /\ app' = [app EXCEPT
                         !.phase = IF Request(t).op = "lifespan" THEN "failed" ELSE @,
                         !.call[t] = RequestRaises(t, thr[t].ret)]
            /\ UNCHANGED DEVICES
       ELSE IF thr[t].ret # "ok"
       THEN /\ app' = [app EXCEPT
                         !.phase = IF Request(t).op = "lifespan" THEN "running" ELSE @,
                         !.call[t] = IF Request(t).op = "list_devices"
                                     THEN RequestRaises(t, "HTTP404")
                                     ELSE RequestReturns(t, NoDevice, {})]
            /\ UNCHANGED DEVICES
       ELSE /\ app.made + Cardinality(DOMAIN serials) <= MaxInstances
            /\ DEVICES' = Constructed(DOMAIN serials)
            /\ app' = [app EXCEPT
                         !.phase = IF Request(t).op = "lifespan" THEN "running" ELSE @,
                         !.made = @ + Cardinality(DOMAIN serials),
                         !.call[t] =
                            IF Request(t).op = "list_devices" /\ DOMAIN serials = {}
                            THEN RequestRaises(t, "HTTP404")
                            ELSE RequestReturns(t, NoDevice, DOMAIN serials)]
    /\ LeaveSend(t)
    /\ UNCHANGED <<managerVars, laser, gmx, drv, mock, script, mgr, ws>>

\* get_device(serial): if serial not in DEVICES: serials = ...discover();
\* otherwise return DEVICES[serial].
CallGetDevice(t, s) ==
    /\ app.phase = "running"
    /\ Request(t).pc = "idle" /\ thr[t].pc = "idle" /\ drv[t].pc = "idle"
    /\ LET r == [IdleRequest EXCEPT !.op = "get_device", !.serial = s] IN
         IF DEVICES[s] # NoDevice
         THEN /\ app' = [app EXCEPT !.call[t] =
                           [r EXCEPT !.pc = "done", !.out = "return",
                                     !.device = DEVICES[s]]]
              /\ UNCHANGED thr
         ELSE /\ app' = [app EXCEPT !.call[t] =
                           [r EXCEPT !.pc = "gd_discover", !.nDiscover = 1]]
              /\ EnterDiscover(t)
    /\ UNCHANGED <<managerVars, laser, gmx, drv, DEVICES, mock, script, mgr,
                   ws>>

\* get_device: discover() has ended.  Whatever it raised, and the
\* HTTPException for a serial that is not in the list, is raised as
\* HTTPException(404); otherwise DEVICES[serial] = GenesisMX(serial) and
\* return DEVICES[serial].
GetDeviceDiscovered(t) ==
    /\ Request(t).pc = "gd_discover" /\ thr[t].pc = "done"
    /\ IF thr[t].ret # "ok" \/ ~Known(Request(t).serial)
       THEN /\ app' = [app EXCEPT !.call[t] = RequestRaises(t, "HTTP404")]
            /\ UNCHANGED DEVICES
       ELSE /\ app.made < MaxInstances
            /\ DEVICES' = [DEVICES EXCEPT ![Request(t).serial] = app.made + 1]
            /\ app' = [app EXCEPT !.made = @ + 1,
                                  !.call[t] = RequestReturns(t, app.made + 1, {})]
    /\ LeaveSend(t)
    /\ UNCHANGED <<managerVars, laser, gmx, drv, mock, script, mgr, ws>>

\* ------------------------------- genesis_mx/app/server.py: the shutdown
\* A close that goes on whatever the write did.
ZeroIgnored(ret) == TRUE

\* GenesisMX.close (genesis_mx/driver.py) goes on to self.hops.close() when
\* the write of the zero setpoint has not raised.
ZeroSent(ret) == ret = "ok"

\* self._manager.send_command(self.serial, command) for the instance of s.
EnterSendOf(t, s) ==
    thr' = [thr EXCEPT ![t] =
              [IdleThread EXCEPT !.pc = "sc_known1", !.op = "send_command",
                                 !.serial = s]]

\* lifespan, after the yield: for record in DEVICES.values(): ...
CallShutdown(t) ==
    /\ app.module = "server" /\ app.phase = "running"
    /\ \A u \in Threads : Request(u).pc = "idle"
    /\ thr[t].pc = "idle" /\ drv[t].pc = "idle"
    /\ app' = [app EXCEPT !.phase = "shutdown",
                          !.call[t] = [IdleRequest EXCEPT !.pc = "sd_next",
                                                          !.op = "shutdown",
                                                          !.todo = Registered]]
    /\ UNCHANGED <<managerVars, thr, laser, gmx, drv, DEVICES, mock, script,
                   mgr, ws>>

\* The next record: record.instance.close() starts with self.power_mw = 0.0,
\* send_write_command(WriteCmds.SET_POWER, 0.0 / self._unit_factor).  After
\* the last record: get_cohrhops_manager().close().
ShutdownNext(t) ==
    /\ Request(t).pc = "sd_next" /\ thr[t].pc = "idle"
    /\ IF Request(t).todo = {}
       THEN /\ app' = [app EXCEPT !.call[t] = [@ EXCEPT !.pc = "sd_manager"]]
            /\ thr' = [thr EXCEPT ![t] =
                         [IdleThread EXCEPT !.pc = "cl_log", !.op = "close"]]
       ELSE \E s \in Request(t).todo :
              /\ app' = [app EXCEPT !.call[t] =
                           [@ EXCEPT !.pc = "sd_zero", !.serial = s,
                                     !.todo = @ \ {s}]]
              /\ EnterSendOf(t, s)
    /\ UNCHANGED <<managerVars, laser, gmx, drv, DEVICES, mock, script, mgr,
                   ws>>

\* The write PCMD=0.0 has ended.  Its exception leaves close() and the
\* lifespan; otherwise `if not self.enable_loop.enabled` reads the software
\* switch first.
ShutdownZeroed(t) ==
    /\ Request(t).pc = "sd_zero" /\ thr[t].pc = "done"
    /\ IF ZeroSent(thr[t].ret)
       THEN /\ app' = [app EXCEPT !.call[t] =
                         [@ EXCEPT !.pc = "sd_software",
                                   !.zeroed = IF thr[t].ret = "ok"
                                              THEN @ \cup {Request(t).serial}
                                              ELSE @]]
            /\ EnterSendOf(t, Request(t).serial)
       ELSE /\ app' = [app EXCEPT !.phase = "exited",
                                  !.call[t] = [@ EXCEPT !.pc = "done", !.out = "raise",
                                                        !.exc = thr[t].ret]]
            /\ LeaveSend(t)
    /\ UNCHANGED <<managerVars, laser, gmx, drv, DEVICES, mock, script, mgr,
                   ws>>

\* enable_loop: software_switch, interlock and key_switch are read in turn,
\* each with `except HOPSException: return False`; then the warning is
\* logged or not, and self.hops.close() enters close_device(self.serial).
ShutdownEnableLoop(t) ==
    /\ Request(t).pc \in {"sd_software", "sd_interlock", "sd_key"}
    /\ thr[t].pc = "done"
    /\ IF thr[t].ret = "KeyError"
       THEN /\ app' = [app EXCEPT !.phase = "exited",
                                  !.call[t] = [@ EXCEPT !.pc = "done", !.out = "raise",
                                                        !.exc = thr[t].ret]]
            /\ LeaveSend(t)
       ELSE IF Request(t).pc = "sd_key"
       THEN /\ app' = [app EXCEPT !.call[t] = [@ EXCEPT !.pc = "sd_close"]]
            /\ thr' = [thr EXCEPT ![t] =
                         [IdleThread EXCEPT !.pc = "cd_lock", !.op = "close_device",
                                            !.serial = Request(t).serial]]
       ELSE /\ app' = [app EXCEPT !.call[t] =
                         [@ EXCEPT !.pc = IF Request(t).pc = "sd_software"
                                          THEN "sd_interlock" ELSE "sd_key"]]
            /\ EnterSendOf(t, Request(t).serial)
    /\ UNCHANGED <<managerVars, laser, gmx, drv, DEVICES, mock, script, mgr,
                   ws>>

\* record.instance.close() has returned: the next record.
ShutdownClosed(t) ==
    /\ Request(t).pc = "sd_close" /\ thr[t].pc = "done"
    /\ app' = [app EXCEPT !.call[t] =
                 [@ EXCEPT !.pc = "sd_next", !.closed = @ \cup {Request(t).serial}]]
    /\ LeaveSend(t)
    /\ UNCHANGED <<managerVars, laser, gmx, drv, DEVICES, mock, script, mgr,
                   ws>>

\* get_cohrhops_manager().close() has returned: the lifespan ends.
ShutdownManagerClosed(t) ==
    /\ Request(t).pc = "sd_manager" /\ thr[t].pc = "done"
    /\ app' = [app EXCEPT !.phase = "closed",
                          !.call[t] = [@ EXCEPT !.pc = "done", !.out = "return"]]
    /\ LeaveSend(t)
    /\ UNCHANGED <<managerVars, laser, gmx, drv, DEVICES, mock, script, mgr,
                   ws>>

\* The endpoint has answered.
RequestDone(t) ==
    /\ Request(t).pc = "done"
    /\ app' = [app EXCEPT !.call[t] = IdleRequest]
    /\ UNCHANGED <<managerVars, thr, laser, gmx, drv, DEVICES, mock, script,
                   mgr, ws>>

\* ============================ genesis_mx/driver.py: class MockGenesisMX
\* Powers are in hundredths of a milliwatt.
\* random.gauss(mu, sigma): the reading is known by its distribution.
Gauss(mu, sigma) == [mu |-> mu, sigma |-> sigma]

\* No power has been read.
NoReading == [mu |-> -1, sigma |-> 0]

\* random.gauss(1.5, 0.15)
BaselineMean == 150
BaselineSigma == 15
\* random.gauss(self._power_mw, 0.25)
EnabledSigma == 25

\* MockGenesisMX.__init__, the power no read has produced yet, and the
\* setpoint the last read found written (kept for the properties only).
MockGenesisMX ==
    [_power_mw |-> 0, _mode |-> PHOTO, _software_switch |-> FALSE,
     _interlock |-> TRUE, _key |-> TRUE, _remote_control_enable |-> TRUE,
     _analog_input_enable |-> FALSE, power_mw |-> NoReading, read_at |-> 0]

\* GenesisMXEnableLoop.enabled of MockGenesisMX.enable_loop
enabled == mock._software_switch /\ mock._interlock /\ mock._key

\* A reading that follows the setpoint whatever the enable loop says.
MeanIsSetpoint == Gauss(mock._power_mw, EnabledSigma)

\* MockGenesisMX.power_mw (getter)
MockPower ==
    IF enabled THEN Gauss(mock._power_mw, EnabledSigma)
    ELSE Gauss(BaselineMean, BaselineSigma)

\* The setpoints written to the mock: 0, 1.5 and 1000 mW.
MockSetpoints == {0, BaselineMean, 100000}

\* mock.power_mw is read.
MockReadPower ==
    /\ mock' = [mock EXCEPT !.power_mw = MockPower, !.read_at = mock._power_mw]
    /\ UNCHANGED <<managerVars, thr, laser, gmx, drv, DEVICES, app, script,
                   mgr, ws>>

\* mock.power_mw = value   (the warning of a disabled loop is only logged)
MockSetPower(value) ==
    /\ mock' = [mock EXCEPT !._power_mw = value]
    /\ UNCHANGED <<managerVars, thr, laser, gmx, drv, DEVICES, app, script,
                   mgr, ws>>

\* mock.enable()
MockEnable ==
    /\ mock' = [mock EXCEPT !._software_switch = TRUE]
    /\ UNCHANGED <<managerVars, thr, laser, gmx, drv, DEVICES, app, script,
                   mgr, ws>>

\* mock.disable()
MockDisable ==
    /\ mock' = [mock EXCEPT !._software_switch = FALSE]
    /\ UNCHANGED <<managerVars, thr, laser, gmx, drv, DEVICES, app, script,
                   mgr, ws>>

\* mock.mode = value
MockSetMode(value) ==
    /\ mock' = [mock EXCEPT !._mode = value]
    /\ UNCHANGED <<managerVars, thr, laser, gmx, drv, DEVICES, app, script,
                   mgr, ws>>

\* mock.remote_control = value
MockSetRemoteControl(value) ==
    /\ mock' = [mock EXCEPT !._remote_control_enable = value]
    /\ UNCHANGED <<managerVars, thr, laser, gmx, drv, DEVICES, app, script,
                   mgr, ws>>

\* mock.analog_input = value
MockSetAnalogInput(value) ==
    /\ mock' = [mock EXCEPT !._analog_input_enable = value]
    /\ UNCHANGED <<managerVars, thr, laser, gmx, drv, DEVICES, app, script,
                   mgr, ws>>

\* ================================== tests/test_script.py: the stress loop
\* iterations = 10 in the script; the passes the model follows.
iterations == 3

\* for i in range(iterations): before the first pass; passes = 0
StressLoop == [pc |-> "discover", i |-> 0, passes |-> 0, serials |-> {}]

\* try: serials = test_discovery(...): manager.discover() is called.
StressDiscover(t) ==
    /\ script.pc = "discover" /\ script.i < iterations
    /\ CallDiscover(t)

\* discover() has ended: its list goes to create_devices, or its exception
\* to the except clause (log, time.sleep(5), continue).
StressDiscovered(t) ==
    /\ script.pc = "discover" /\ thr[t].pc = "done"
    /\ script' = IF thr[t].ret = "ok"
                 THEN [script EXCEPT !.pc = "create", !.serials = DOMAIN serials]
                 ELSE [script EXCEPT !.pc = "sleep"]
    /\ thr' = [thr EXCEPT ![t] = IdleThread]
    /\ UNCHANGED <<managerVars, laser, gmx, drv, DEVICES, app, mock, mgr, ws>>

\* create_devices: [GenesisMX(serial) for serial in serials]; the
\* constructor stores the serial and sends nothing.
StressCreateDevices ==
    /\ script.pc = "create"
    /\ script' = [script EXCEPT !.pc = "close"]
    /\ UNCHANGED <<managerVars, thr, laser, gmx, drv, DEVICES, app, mock,
                   mgr, ws>>

\* mrg.close() is called.
StressClose(t) ==
    /\ script.pc = "close"
    /\ CallClose(t)

\* close() has returned: passes += 1, and the next pass.
StressPassed(t) ==
    /\ script.pc = "close" /\ thr[t].pc = "done"
    /\ script' = [script EXCEPT !.pc = "discover", !.i = @ + 1,
                                !.passes = @ + 1, !.serials = {}]
    /\ thr' = [thr EXCEPT ![t] = IdleThread]
    /\ UNCHANGED <<managerVars, laser, gmx, drv, DEVICES, app, mock, mgr, ws>>

\* time.sleep(5) is over: continue with the next pass.
StressRetry ==
    /\ script.pc = "sleep"
    /\ script' = [script EXCEPT !.pc = "discover", !.i = @ + 1]
    /\ UNCHANGED <<managerVars, thr, laser, gmx, drv, DEVICES, app, mock,
                   mgr, ws>>

\* ======================== hops/cohrhops.py, hops/lib2.py: get_cohrhops_manager
\* The threads that call get_cohrhops_manager(): the importing thread (the
\* class attribute CohrHOPSDevice._manager) and the threads of the program.
Callers == Threads \cup {"main"}

\* _cohrhops_manager_instance = None; an instance is the number of the
\* constructor run that made it.
NoManager == 0

\* A caller: its position and the value its call returned.
IdleCaller == [pc |-> "idle", got |-> NoManager]

\* The module globals after import: no instance, _cohrhops_manager_lock free.
FirstCall ==
    [instance |-> NoManager, made |-> 0, lock |-> NoThread,
     call |-> [c \in Callers |-> IdleCaller]]

\* if _cohrhops_manager_instance is None:   (outside the lock)
FirstTest == mgr.instance = NoManager

\* A second test that does not read the global again.
AssumeNone == TRUE

\* if _cohrhops_manager_instance is None:   (inside the lock)
SecondTest == mgr.instance = NoManager

\* get_cohrhops_manager() is called.
GetManager(c) ==
    /\ mgr.call[c].pc \in {"idle", "done"}
    /\ mgr' = [mgr EXCEPT !.call[c].pc = "gm_first"]
    /\ UNCHANGED <<managerVars, thr, laser, gmx, drv, DEVICES, app, mock,
                   script, ws>>

\* The first test: to the with block, or straight to the return.
GmFirstTest(c) ==
    /\ mgr.call[c].pc = "gm_first"
    /\ mgr' = [mgr EXCEPT !.call[c].pc =
                              IF FirstTest THEN "gm_lock" ELSE "gm_return"]
    /\ UNCHANGED <<managerVars, thr, laser, gmx, drv, DEVICES, app, mock,
                   script, ws>>

\* with _cohrhops_manager_lock: entering
GmLock(c) ==
    /\ mgr.call[c].pc = "gm_lock"
    /\ mgr.lock = NoThread
    /\ mgr' = [mgr EXCEPT !.lock = c, !.call[c].pc = "gm_second"]
    /\ UNCHANGED <<managerVars, thr, laser, gmx, drv, DEVICES, app, mock,
                   script, ws>>

\* The second test, holding the lock.
GmSecondTest(c) ==
    /\ mgr.call[c].pc = "gm_second"
    /\ mgr' = [mgr EXCEPT !.call[c].pc =
                              IF SecondTest THEN "gm_ctor" ELSE "gm_unlock"]
    /\ UNCHANGED <<managerVars, thr, laser, gmx, drv, DEVICES, app, mock,
                   script, ws>>

\* _cohrhops_manager_instance = CohrHOPSManager()
GmConstruct(c) ==
    /\ mgr.call[c].pc = "gm_ctor"
    /\ mgr' = [mgr EXCEPT !.made = @ + 1, !.instance = mgr.made + 1,
                          !.call[c].pc = "gm_unlock"]
    /\ UNCHANGED <<managerVars, thr, laser, gmx, drv, DEVICES, app, mock,
                   script, ws>>

\* with _cohrhops_manager_lock: leaving
GmUnlock(c) ==
    /\ mgr.call[c].pc = "gm_unlock"
    /\ mgr' = [mgr EXCEPT !.lock = NoThread, !.call[c].pc = "gm_return"]
    /\ UNCHANGED <<managerVars, thr, laser, gmx, drv, DEVICES, app, mock,
                   script, ws>>

\* return _cohrhops_manager_instance
GmReturn(c) ==
    /\ mgr.call[c].pc = "gm_return"
    /\ mgr' = [mgr EXCEPT !.call[c].pc = "done", !.call[c].got = mgr.instance]
    /\ UNCHANGED <<managerVars, thr, laser, gmx, drv, DEVICES, app, mock,
                   script, ws>>

\* ============= genesis_mx/app/server.py: websockets and publisher tasks
\* The websocket clients of the server.
Sockets == {"w1", "w2"}

\* The most DeviceRecords the discoveries of one run make.
MaxRecords == 3

\* A DeviceRecord is named by the number of the GenesisMX instance it holds.
Records == 1..MaxRecords

\* No DeviceRecord of that number was made.
NoRecord ==
    [serial |-> NoSerial, active_connections |-> {}, publisher_task |-> "none",
     pc |-> "none"]

\* DeviceRecord(GenesisMX(serial), wsManager()): no connection,
\* publisher_task = None.
DeviceRecord(serial) == [NoRecord EXCEPT !.serial = serial]

\* No handler device_ws is running for the websocket.
ClosedSocket == [pc |-> "closed", record |-> NoDevice]

\* The server before its lifespan has started.
NoSockets ==
    [phase |-> "init", record |-> [i \in Records |-> NoRecord],
     socket |-> [k \in Sockets |-> ClosedSocket]]

\* The publisher tasks that are running for serial s.
Publishers(s) ==
    {i \in Records : /\ ws.record[i].serial = s
                      /\ ws.record[i].publisher_task = "running"}

\* run_discovery: DEVICES.clear(), then a new DeviceRecord for each serial
\* that discover() listed; found is empty when discover() raised.  The
\* records that DEVICES held stay with the handlers and tasks that use them.
run_discovery(found) ==
    /\ app.made + Cardinality(found) <= MaxRecords
    /\ DEVICES' = Constructed(found)
    /\ app' = [app EXCEPT !.made = @ + Cardinality(found)]
    /\ ws' = [ws EXCEPT
                !.phase = "run",
                !.record =
                   [i \in Records |->
                      IF \E s \in found : Constructed(found)[s] = i
                      THEN DeviceRecord(CHOOSE s \in found :
                                            Constructed(found)[s] = i)
                      ELSE ws.record[i]]]

\* lifespan, before the yield: await run_in_threadpool(run_discovery)
ServerStartup ==
    /\ ws.phase = "init"
    /\ \E found \in SUBSET Serials : run_discovery(found)
    /\ UNCHANGED <<managerVars, thr, laser, gmx, drv, mock, script, mgr>>

\* POST /api/discover: run_discovery(mock), called in the event loop.
discover_devices ==
    /\ ws.phase = "run"
    /\ \E found \in SUBSET Serials : run_discovery(found)
    /\ UNCHANGED <<managerVars, thr, laser, gmx, drv, mock, script, mgr>>

\* device_ws up to 'await websocket.accept()': the record of the serial, made
\* after a discovery if DEVICES has none; a serial that the discovery does
\* not list ends the handler with HTTPException(404).
device_ws(k, s) ==
    /\ ws.phase = "run"
    /\ ws.socket[k].pc = "closed"
    /\ IF DEVICES[s] # NoDevice
       THEN /\ ws' = [ws EXCEPT !.socket[k] =
                                   [pc |-> "accept", record |-> DEVICES[s]]]
            /\ UNCHANGED <<DEVICES, app>>
       ELSE \E found \in SUBSET Serials :
              /\ s \in found => app.made < MaxRecords
              /\ IF s \in found
                 THEN /\ DEVICES' = [DEVICES EXCEPT ![s] = app.made + 1]
                      /\ app' = [app EXCEPT !.made = @ + 1]
                      /\ ws' = [ws EXCEPT
                                  !.record[app.made + 1] = DeviceRecord(s),
                                  !.socket[k] = [pc |-> "accept",
                                                 record |-> app.made + 1]]
                 ELSE UNCHANGED <<DEVICES, app, ws>>
    /\ UNCHANGED <<managerVars, thr, laser, gmx, drv, mock, script, mgr>>

\* if record.publisher_task is None or record.publisher_task.done():
NeedsPublisher(r) == r.publisher_task \in {"none", "done"}

\* device_ws after the accept: active_connections.append(websocket), then
\* asyncio.create_task(device_status_publisher(...)) unless the record has a
\* task that is not done; the handler waits in receive_text().
WsAccepted(k) ==
    /\ ws.phase = "run"
    /\ ws.socket[k].pc = "accept"
    /\ LET i == ws.socket[k].record
           r == ws.record[i]
       IN ws' = [ws EXCEPT
                   !.socket[k].pc = "open",
                   !.record[i] =
                      [r EXCEPT !.active_connections = @ \cup {k},
                                !.publisher_task =
                                   IF NeedsPublisher(r) THEN "running" ELSE @,
                                !.pc = IF NeedsPublisher(r) THEN "check" ELSE @]]
    /\ UNCHANGED <<managerVars, thr, laser, gmx, drv, DEVICES, app, mock,
                   script, mgr>>

\* wsManager.disconnect: if websocket in self.active_connections: remove it.
disconnect(r, k) == [r EXCEPT !.active_connections = @ \ {k}]

\* receive_text() raised WebSocketDisconnect or another exception:
\* ws_manager.disconnect(websocket), and the handler ends.
WsDisconnect(k) ==
    /\ ws.phase = "run"
    /\ ws.socket[k].pc = "open"
    /\ LET i == ws.socket[k].record
       IN ws' = [ws EXCEPT !.socket[k] = ClosedSocket,
                           !.record[i] = disconnect(ws.record[i], k)]
    /\ UNCHANGED <<managerVars, thr, laser, gmx, drv, DEVICES, app, mock,
                   script, mgr>>

\* device_status_publisher, top of the loop:
\* if not ws_manager.active_connections: break   (the task is done)
PublisherCheck(i) ==
    /\ ws.phase = "run"
    /\ ws.record[i].publisher_task = "running" /\ ws.record[i].pc = "check"
    /\ ws' = IF ws.record[i].active_connections = {}
             THEN [ws EXCEPT !.record[i].publisher_task = "done",
                             !.record[i].pc = "none"]
             ELSE [ws EXCEPT !.record[i].pc = "status"]
    /\ UNCHANGED <<managerVars, thr, laser, gmx, drv, DEVICES, app, mock,
                   script, mgr>>

\* await run_in_threadpool(get_device_status / get_device_power, serial):
\* get_device looks the serial up in DEVICES; for a serial that is no key it
\* runs discover() and registers a new DeviceRecord if the serial is listed,
\* and raises HTTPException otherwise; 'except Exception' of the publisher
\* logs it and the task is done.
PublisherStatus(i) ==
    /\ ws.phase = "run"
    /\ ws.record[i].publisher_task = "running" /\ ws.record[i].pc = "status"
    /\ LET s == ws.record[i].serial IN
         IF DEVICES[s] # NoDevice
         THEN /\ ws' = [ws EXCEPT !.record[i].pc = "broadcast"]
              /\ UNCHANGED <<DEVICES, app>>
         ELSE \E found \in SUBSET Serials :
                /\ s \in found => app.made < MaxRecords
                /\ IF s \in found
                   THEN /\ DEVICES' = [DEVICES EXCEPT ![s] = app.made + 1]
                        /\ app' = [app EXCEPT !.made = @ + 1]
                        /\ ws' = [ws EXCEPT
                                    !.record[app.made + 1] = DeviceRecord(s),
                                    !.record[i].pc = "broadcast"]
                   ELSE /\ ws' = [ws EXCEPT
                                    !.record[i].publisher_task = "done",
                                    !.record[i].pc = "none"]
                        /\ UNCHANGED <<DEVICES, app>>
    /\ UNCHANGED <<managerVars, thr, laser, gmx, drv, mock, script, mgr>>

\* await ws_manager.broadcast(update): a connection whose send_json raises is
\* disconnected; then counter += 1 and asyncio.sleep(0.1).
PublisherBroadcast(i) ==
    /\ ws.phase = "run"
    /\ ws.record[i].publisher_task = "running" /\ ws.record[i].pc = "broadcast"
    /\ \E failed \in SUBSET ws.record[i].active_connections :
         ws' = [ws EXCEPT !.record[i].active_connections = @ \ failed,
                          !.record[i].pc = "check"]
    /\ UNCHANGED <<managerVars, thr, laser, gmx, drv, DEVICES, app, mock,
                   script, mgr>>

\* lifespan, after the yield: for record in DEVICES.values(): the
\* publisher_task that is not None is cancelled and awaited.
ShutdownPublishers ==
    /\ ws.phase = "run"
    /\ ws' = [ws EXCEPT
                !.phase = "shutdown",
                !.record =
                   [i \in Records |->
                      IF /\ \E s \in Serials : DEVICES[s] = i
                         /\ ws.record[i].publisher_task = "running"
                      THEN [ws.record[i] EXCEPT !.publisher_task = "done",
                                                !.pc = "none"]
                      ELSE ws.record[i]]]
    /\ UNCHANGED <<managerVars, thr, laser, gmx, drv, DEVICES, app, mock,
                   script, mgr>>

\* ------------------------------------------------------------------ Spec
Init ==
    /\ attached = [h \in Handles |-> NoSerial]
    /\ connections = <<>>
    /\ serials = <<>>
    /\ closed_serials = {}
    /\ lock = NoThread
    /\ thr = [t \in Threads |-> IdleThread]
    /\ released = {}
    /\ replaced = [s \in Serials |-> NullHandle]
    /\ laser = LaserOff
    /\ gmx = NoInstance
    /\ drv = [t \in Threads |-> IdleDriver]
    /\ DEVICES = NoDevices
    /\ app = NoApp
    /\ mock = MockGenesisMX
    /\ script = StressLoop
    /\ mgr = FirstCall
    /\ ws = NoSockets

\* Devices come and go, each on any free handle.
Environment ==
    \/ \E h \in Handles, s \in Serials : Attach(h, s)
    \/ \E h \in Handles : Detach(h)

\* Devices come and go, each on its own handle.
EnvironmentHome ==
    \/ \E s \in Serials : AttachHome(s)
    \/ \E h \in Handles : Detach(h)

Discovery(t) ==
    \/ RefreshReturn(t)
    \/ DiscoverCheckLen(t)
    \/ RefreshSerialsLock(t)
    \/ RefreshSerialsLoop(t)
    \/ QuerySerialReturn(t)
    \/ InitInRefreshReturn(t)
    \/ CloseInRefreshReturn(t)
    \/ RequerySerialReturn(t)
    \/ RefreshSerialsEnd(t)
    \/ DiscoverReturn(t)

Operation(t) ==
    \/ CallDiscover(t)
    \/ \E s \in Serials : CallSendCommand(t, s)
    \/ CallClose(t)
    \/ CallSerials(t)
    \/ Return(t)
    \/ SerialsRead(t)
    \/ Discovery(t)
    \/ SendCommandKnown1(t)
    \/ SendCommandKnown2(t)
    \/ SendCommandLock(t)
    \/ SendReturn(t)
    \/ SendInitReturn(t)
    \/ SendInitCloseReturn(t)
    \/ ResendReturn(t)
    \/ SendCloseReturn(t)
    \/ CloseLog(t)
    \/ CloseLock(t)
    \/ CloseLoopReturn(t)

\* Two concurrent callers of the manager.  close_device, which only adds to a
\* set that nothing reads, is left to the one-caller specification.
Next ==
    \/ EnvironmentHome
    \/ \E t \in Threads : Operation(t)

Spec == Init /\ [][Next]_vars

\* One caller; every operation of the manager; devices on any handle.
NextSeq ==
    \/ Environment
    \/ Operation("t1")
    \/ \E s \in Serials : CallCloseDevice("t1", s)
    \/ CloseDevice("t1")

SpecSeq == Init /\ [][NextSeq]_vars

\* lib2.py: the retrying discover() of the manager, two concurrent callers.
DiscoverRetry(t) ==
    \/ CallDiscoverRetry(t)
    \/ RetryLoop(t)
    \/ RetryRefreshReturn(t)
    \/ RetryBreak(t)
    \/ RetrySleep(t)
    \/ RetryCheckLen(t)
    \/ RefreshSerialsLock(t)
    \/ RefreshSerialsLoop(t)
    \/ QuerySerialReturn(t)
    \/ InitInRefreshReturn(t)
    \/ RequerySerialReturn(t)
    \/ RefreshSerialsEnd(t)
    \/ DiscoverReturn(t)
    \/ Return(t)

NextRetry ==
    \/ EnvironmentHome
    \/ \E t \in Threads : DiscoverRetry(t)

SpecRetry == Init /\ [][NextRetry]_vars

\* The same with one caller.
NextRetrySeq ==
    \/ EnvironmentHome
    \/ DiscoverRetry("t1")

SpecRetrySeq == Init /\ [][NextRetrySeq]_vars

\* ------------------------------------------- specifications of GenesisMX
\* The state after construction, with a head whose registers are l.
InitLaser(l) ==
    /\ attached = [h \in Handles |-> NoSerial]
    /\ connections = <<>>
    /\ serials = <<>>
    /\ closed_serials = {}
    /\ lock = NoThread
    /\ thr = [t \in Threads |-> IdleThread]
    /\ released = {}
    /\ replaced = [s \in Serials |-> NullHandle]
    /\ laser = l
    /\ gmx = NoInstance
    /\ drv = [t \in Threads |-> IdleDriver]
    /\ DEVICES = NoDevices
    /\ app = NoApp
    /\ mock = MockGenesisMX
    /\ script = StressLoop
    /\ mgr = FirstCall
    /\ ws = NoSockets

\* The one laser head is plugged in and unplugged.
EnvironmentDevice ==
    \/ AttachHome(DeviceSerial)
    \/ Detach(HomeHandle(DeviceSerial))

\* The steps of the manager inside a send_command that an instance made.
ManagerSteps(t) ==
    \/ Discovery(t)
    \/ SendCommandKnown1(t)
    \/ SendCommandKnown2(t)
    \/ SendCommandLock(t)
    \/ SendReturn(t)
    \/ SendInitReturn(t)
    \/ SendInitCloseReturn(t)
    \/ ResendReturn(t)
    \/ SendCloseReturn(t)

\* One caller of the read accessors and of alarms.
NextAccess ==
    \/ EnvironmentDevice
    \/ ManagerSteps("t1")
    \/ \E acc \in Accessors : CallRead("t1", acc)
    \/ ReadDone("t1")
    \/ CallAlarms("t1")
    \/ AlarmsRead("t1")
    \/ DrvReturn("t1")

SpecAccess ==
    /\ \E c \in FaultCodes : InitLaser([LaserOff EXCEPT !.ff = c])
    /\ [][NextAccess]_vars

\* One caller that sets and reads the power setpoint.
NextPower ==
    \/ EnvironmentDevice
    \/ ManagerSteps("t1")
    \/ \E x \in Setpoints : CallSetPowerSetpoint("t1", x)
    \/ CallGetPowerSetpoint("t1")
    \/ GetPowerRead("t1")
    \/ InfoHeadType("t1")
    \/ InfoHeadHours("t1")
    \/ InfoBoardRevision("t1")
    \/ WriteSent("t1")
    \/ ReadbackDone("t1")
    \/ DrvReturn("t1")

\* One caller of info and unit_factor.
NextInfo ==
    \/ EnvironmentDevice
    \/ HeadHoursChange
    \/ ManagerSteps("t1")
    \/ CallInfo("t1")
    \/ CallUnitFactor("t1")
    \/ InfoHeadType("t1")
    \/ InfoHeadHours("t1")
    \/ InfoBoardRevision("t1")
    \/ DrvReturn("t1")

SpecInfo ==
    /\ \E h \in HeadTypes : InitLaser([LaserOff EXCEPT !.htype = h])
    /\ [][NextInfo]_vars

SpecPower ==
    /\ \E h \in HeadTypes : InitLaser([LaserOff EXCEPT !.htype = h])
    /\ [][NextPower]_vars

\* One caller of enable() and disable(); interlock and key change freely.
NextEnable ==
    \/ EnvironmentDevice
    \/ InterlockChange
    \/ KeyChange
    \/ ManagerSteps("t1")
    \/ CallEnable("t1")
    \/ CallDisable("t1")
    \/ SwitchInterlock("t1")
    \/ SwitchKey("t1")
    \/ SwitchLogInterlock("t1")
    \/ SwitchLogKey("t1")
    \/ WriteSent("t1")
    \/ ReadbackDone("t1")
    \/ DrvReturn("t1")

SpecEnable == InitLaser(LaserOff) /\ [][NextEnable]_vars

\* api.py: the lifespan's discovery, then one caller of list_devices and
\* get_device, while devices come and go.
NextRegistry ==
    \/ EnvironmentHome
    \/ Discovery("t1")
    \/ CallLifespan("t1")
    \/ RunDiscoveryDone("t1")
    \/ CallListDevices("t1")
    \/ \E s \in Serials : CallGetDevice("t1", s)
    \/ GetDeviceDiscovered("t1")
    \/ RequestDone("t1")

SpecRegistry == Init /\ [][NextRegistry]_vars

\* genesis_mx/app/server.py: the lifespan's discovery, one caller of
\* list_devices, and the shutdown of the lifespan.
NextServer ==
    \/ EnvironmentHome
    \/ Discovery("t1")
    \/ SendCommandKnown1("t1")
    \/ SendCommandKnown2("t1")
    \/ SendCommandLock("t1")
    \/ SendReturn("t1")
    \/ SendInitReturn("t1")
    \/ SendInitCloseReturn("t1")
    \/ ResendReturn("t1")
    \/ SendCloseReturn("t1")
    \/ CloseDevice("t1")
    \/ CloseLog("t1")
    \/ CloseLock("t1")
    \/ CloseLoopReturn("t1")
    \/ CallLifespan("t1")
    \/ RunDiscoveryDone("t1")
    \/ CallListDevices("t1")
    \/ CallShutdown("t1")
    \/ ShutdownNext("t1")
    \/ ShutdownZeroed("t1")
    \/ ShutdownEnableLoop("t1")
    \/ ShutdownClosed("t1")
    \/ ShutdownManagerClosed("t1")
    \/ RequestDone("t1")

InitServer ==
    /\ attached = [h \in Handles |-> NoSerial]
    /\ connections = <<>>
    /\ serials = <<>>
    /\ closed_serials = {}
    /\ lock = NoThread
    /\ thr = [t \in Threads |-> IdleThread]
    /\ released = {}
    /\ replaced = [s \in Serials |-> NullHandle]
    /\ laser = LaserOff
    /\ gmx = NoInstance
    /\ drv = [t \in Threads |-> IdleDriver]
    /\ DEVICES = NoDevices
    /\ app = ServerApp
    /\ mock = MockGenesisMX
    /\ script = StressLoop
    /\ mgr = FirstCall
    /\ ws = NoSockets

SpecServer == InitServer /\ [][NextServer]_vars

\* One caller that sets and reads the operation mode.
NextMode ==
    \/ EnvironmentDevice
    \/ ManagerSteps("t1")
    \/ \E m \in {PHOTO, CURRENT} : CallSetMode("t1", m)
    \/ CallGetMode("t1")
    \/ ModeRead("t1")
    \/ WriteSent("t1")
    \/ ReadbackDone("t1")
    \/ DrvReturn("t1")

SpecMode ==
    /\ \E m \in {PHOTO, CURRENT} : InitLaser([LaserOff EXCEPT !.mode = m])
    /\ [][NextMode]_vars

\* One user of a MockGenesisMX.
NextMock ==
    \/ MockReadPower
    \/ \E value \in MockSetpoints : MockSetPower(value)
    \/ MockEnable
    \/ MockDisable
    \/ \E value \in {PHOTO, CURRENT} : MockSetMode(value)
    \/ \E value \in BOOLEAN : MockSetRemoteControl(value)
    \/ \E value \in BOOLEAN : MockSetAnalogInput(value)

SpecMock == Init /\ [][NextMock]_vars

\* Devices are plugged in and unplugged while no call of the loop is inside
\* the manager.
EnvironmentBetweenCalls(t) ==
    /\ thr[t].pc = "idle"
    /\ Environment

\* tests/test_script.py: the stress loop of discover, construct and close.
NextStress ==
    \/ EnvironmentBetweenCalls("t1")
    \/ StressDiscover("t1")
    \/ Discovery("t1")
    \/ StressDiscovered("t1")
    \/ StressCreateDevices
    \/ StressClose("t1")
    \/ CloseLog("t1")
    \/ CloseLock("t1")
    \/ CloseLoopReturn("t1")
    \/ StressPassed("t1")
    \/ StressRetry

SpecStress == Init /\ [][NextStress]_vars

\* with self._lock: entered by send_command, _refresh_serials and close.
LockStep(t) == SendCommandLock(t) \/ RefreshSerialsLock(t) \/ CloseLock(t)

\* The operations of the manager that take the lock, on one device.
LockOperation(t) ==
    \/ CallDiscover(t)
    \/ CallSendCommand(t, DeviceSerial)
    \/ CallClose(t)
    \/ Return(t)
    \/ Discovery(t)
    \/ SendCommandKnown1(t)
    \/ SendCommandKnown2(t)
    \/ SendCommandLock(t)
    \/ SendReturn(t)
    \/ SendInitReturn(t)
    \/ SendInitCloseReturn(t)
    \/ ResendReturn(t)
    \/ SendCloseReturn(t)
    \/ CloseLog(t)
    \/ CloseLock(t)
    \/ CloseLoopReturn(t)

NextFair ==
    \/ EnvironmentDevice
    \/ \E t \in Threads : LockOperation(t)

\* Two concurrent callers when every hardware call returns, every caller
\* that can take a step takes one, and a caller blocked on the lock gets it
\* when it is released again and again.
SpecFair ==
    /\ Init
    /\ [][NextFair]_vars
    /\ \A t \in Threads : WF_vars(LockOperation(t)) /\ SF_vars(LockStep(t))

\* ------------------------------------- specification of the manager singleton
\* Any number of calls of get_cohrhops_manager() by the callers, interleaved
\* statement by statement.
NextManager ==
    \E c \in Callers :
        \/ GetManager(c)
        \/ GmFirstTest(c)
        \/ GmLock(c)
        \/ GmSecondTest(c)
        \/ GmConstruct(c)
        \/ GmUnlock(c)
        \/ GmReturn(c)

SpecManager == Init /\ [][NextManager]_vars

\* ----------------------------------- specification of concurrent setters
\* Two callers that assign laser.mode through the one GenesisMX instance,
\* each from its own thread, while the head is plugged in and unplugged.
NextWrite ==
    \/ EnvironmentDevice
    \/ \E t \in Threads :
        \/ ManagerSteps(t)
        \/ \E m \in {PHOTO, CURRENT} : CallSetMode(t, m)
        \/ WriteSent(t)
        \/ ReadbackDone(t)
        \/ DrvReturn(t)

SpecWrite == InitLaser(LaserOff) /\ [][NextWrite]_vars

\* ------------------------------ specification of the server's websockets
\* The event loop of the server: startup, websocket handlers, publisher
\* tasks and POST /api/discover, one coroutine step at a time, then shutdown.
NextSockets ==
    \/ ServerStartup
    \/ discover_devices
    \/ \E k \in Sockets, s \in Serials : device_ws(k, s)
    \/ \E k \in Sockets : WsAccepted(k) \/ WsDisconnect(k)
    \/ \E i \in Records :
        \/ PublisherCheck(i)
        \/ PublisherStatus(i)
        \/ PublisherBroadcast(i)
    \/ ShutdownPublishers

SpecSockets == InitServer /\ [][NextSockets]_vars

\* ================================================================ claims
\* Positions at which a thread is inside CohrHOPS_SendCommand.
SendInFlight == {"rs_q1_ret", "rs_q2_ret", "sc_s1_ret", "sc_s2_ret"}

\* Positions at which a thread is inside any call of the hardware interface
\* (CheckForDevices, SendCommand, InitializeHandle, Close).
DllInFlight ==
    SendInFlight \cup {"refresh_ret", "l2_refresh_ret", "rs_init_ret", "rs_close_ret",
                       "sc_init_ret", "sc_initclose_ret", "sc_close_ret",
                       "cl_close_ret"}

\* Positions from which the next step of the thread reads or writes the
\* handle table or the serial map without first taking the lock.
TableAccess ==
    {"serials_read", "refresh_ret", "disc_len", "rs_loop", "rs_q1_ret", "rs_q2_ret",
     "disc_return", "sc_known1", "sc_known2", "sc_s1_ret", "sc_init_ret",
     "sc_initclose_ret", "sc_s2_ret", "sc_close_ret", "cl_log", "cl_close_ret"}

\* Positions of send_command after its reinitialization has returned.
AfterReinit == {"sc_initclose_ret", "sc_s2_ret", "sc_close_ret"}

\* C1: at most one CohrHOPS_SendCommand is in flight at any instant, over
\* all threads and serials, the identification reads of discover() included.
C1_OneCommandInFlight ==
    Cardinality({t \in Threads : thr[t].pc \in SendInFlight}) <= 1

\* C1 witness: a command is in flight while the other caller waits for the
\* lock with its own command or identification reads.
C1_Witness ==
    \E t, u \in Threads :
        /\ t # u
        /\ thr[t].pc \in SendInFlight
        /\ thr[u].pc \in {"sc_lock", "rs_lock"}

\* C2 (as claimed): every call into the hardware interface is made by a
\* thread that holds the manager lock.
C2_DllCallsUnderLock ==
    \A t \in Threads : thr[t].pc \in DllInFlight => lock = t

\* C3 (as claimed): the handle table and the serial map are read or written
\* only by a thread that holds the manager lock.
C3_TablesUnderLock ==
    \A t \in Threads : thr[t].pc \in TableAccess => lock = t

\* C4 (as claimed): once the first send of a send_command call has failed,
\* the call makes exactly one reinitialization followed by one retry.
C4_ReinitThenRetry ==
    \A t \in Threads :
        thr[t].pc \in AfterReinit => thr[t].nInit = 1 /\ thr[t].nSend = 2

\* C4 (amended): a send_command call sends its command at most twice and
\* reinitializes at most once; after a failed first send it reinitializes
\* exactly once, and the retry is sent if and only if that reinitialization
\* succeeded.
C4_ReinitRetryIfOk ==
    \A t \in Threads :
        /\ thr[t].nSend <= 2 /\ thr[t].nInit <= 1
        /\ thr[t].pc = "sc_s1_ret" => thr[t].nSend = 1 /\ thr[t].nInit = 0
        /\ thr[t].pc = "sc_init_ret" =>
              thr[t].first = "fail" /\ thr[t].nSend = 1 /\ thr[t].nInit = 1
        /\ thr[t].pc \in AfterReinit =>
              /\ thr[t].first = "fail" /\ thr[t].nInit = 1
              /\ thr[t].nSend = (IF thr[t].reinit = "ok" THEN 2 ELSE 1)
        /\ thr[t].pc = "sc_s2_ret" => thr[t].reinit = "ok"
        /\ thr[t].pc = "sc_initclose_ret" => thr[t].reinit = "fail"

\* C4 witness: the retry is in flight after a failed first send and a
\* successful reinitialization.
C4_Witness ==
    \E t \in Threads :
        thr[t].pc = "sc_s2_ret" /\ thr[t].nSend = 2 /\ thr[t].nInit = 1

\* C5: a send_command that ends with CommandError has closed the handle of
\* its serial and removed the serial from the map; and a send_command that
\* finds its serial unmapped runs discovery before anything else.
C5_EvictedOnCommandError ==
    [][\A t \in Threads :
         /\ (thr[t].pc # "done" /\ thr'[t].pc = "done"
                 /\ thr'[t].ret = "CommandError") =>
               /\ thr[t].pc = "sc_close_ret"
               /\ Known(thr[t].serial)
               /\ thr[t].handle = serials[thr[t].serial]
               /\ thr[t].serial \notin DOMAIN serials'
         /\ (thr[t].pc = "sc_known1" /\ ~Known(thr[t].serial)
                 /\ thr'[t] # thr[t]) =>
               thr'[t].pc = "refresh_ret"]_vars

\* C5 witness: a send_command has ended with CommandError.
C5_Witness ==
    \E t \in Threads : thr[t].pc = "done" /\ thr[t].ret = "CommandError"

\* C6 (as claimed): a send_command that ran discovery (CheckForDevices
\* answered) and ends while its serial still has no handle ends with
\* DeviceNotFound, whatever the discovery found.
C6_NotFoundAfterDiscovery ==
    [][\A t \in Threads :
         (/\ thr[t].op = "send_command" /\ thr[t].nDisc = 1
          /\ thr[t].pc \in {"disc_len", "rs_end", "disc_return", "sc_known2"}
          /\ thr'[t].pc = "done"
          /\ thr[t].serial \notin DOMAIN serials') =>
            thr'[t].ret = "DeviceNotFound"]_vars

\* C7 (as claimed): a send_command for a serial that close_device released,
\* and that no discovery has resolved since, fails with DeviceNotFound at the
\* known-serial test.
C7_ClosedDeviceNotFound ==
    [][\A t \in Threads :
         (/\ thr[t].pc = "sc_known2" /\ thr'[t] # thr[t]
          /\ thr[t].serial \in released) =>
            thr'[t].ret = "DeviceNotFound"]_vars

\* C8 (as claimed): close() ends without an error and leaves the handle
\* table empty.
C8_CloseEmptiesTable ==
    [][\A t \in Threads :
         (thr[t].pc = "cl_close_ret" /\ thr'[t].pc = "done") =>
            thr'[t].ret = "ok" /\ Len(connections') = 0]_vars

\* C10 (as claimed): a discover() that gave up on a handle still returns
\* normally.
C10_DiscoverSurvivesFailedHandle ==
    [][\A t \in Threads :
         (/\ thr[t].pc = "rs_end" /\ thr[t].op = "discover"
          /\ thr[t].fails # {} /\ thr'[t] # thr[t]) =>
            thr'[t].pc = "disc_return"]_vars

\* C9: the retrying discover() refreshes at most max_attempts times, never
\* refreshes again after a non-empty result, and raises NoDevicesFound at the
\* test after the loop exactly when all max_attempts refreshes were empty.
C9_RetryOutcome ==
    /\ [](\A t \in Threads :
            /\ thr[t].nRefresh <= max_attempts
            /\ thr[t].pc = "l2_refresh_ret" => thr[t].allEmpty)
    /\ [][\A t \in Threads :
            (thr[t].pc = "l2_len" /\ thr'[t] # thr[t]) =>
               ((thr'[t].ret = "NoDevicesFound") <=>
                  (thr[t].nRefresh = max_attempts /\ thr[t].allEmpty))]_vars

\* The serials of the devices that are connected.
Connected == {attached[h] : h \in Handles} \ {NoSerial}

\* C11 (as claimed): a discover() whose identification reads resolved exactly
\* the devices that are connected when it returns, returns exactly their
\* serials: none is missing, and no serial of a device that is gone is added.
C11_DiscoverReturnsConnected ==
    [][\A t \in Threads :
         (/\ thr[t].op = "discover" /\ thr[t].pc = "disc_return"
          /\ thr'[t].pc = "done" /\ thr'[t].ret = "ok"
          /\ thr[t].resolved = Connected) =>
            DOMAIN serials = Connected]_vars

\* Positions of send_command at which the interface was or is being called
\* on thr[t].handle.
SendCommandOnHandle ==
    {"sc_s1_ret", "sc_init_ret", "sc_initclose_ret", "sc_s2_ret", "sc_close_ret"}

\* C12: a discovery that resolves serial S on a handle leaves S mapped to that
\* handle and to no other, and every call send_command makes for S is made on
\* the handle S is mapped to, never on the handle that mapping replaced.
C12_CommandsFollowReplacement ==
    /\ [](\A t \in Threads :
            (thr[t].op = "send_command" /\ thr[t].pc \in SendCommandOnHandle) =>
               /\ Known(thr[t].serial)
               /\ thr[t].handle = serials[thr[t].serial]
               /\ thr[t].handle # replaced[thr[t].serial])
    /\ [][\A t \in Threads :
            (/\ thr[t].pc \in {"rs_q1_ret", "rs_q2_ret"}
             /\ thr'[t].pc = "rs_loop" /\ thr'[t].fails = thr[t].fails) =>
               /\ attached[thr[t].handle] \in DOMAIN serials'
               /\ serials'[attached[thr[t].handle]] = thr[t].handle]_vars

\* C12 witness: a command for a serial is in flight on the handle that a
\* discovery put in the place of an earlier one.
C12_Witness ==
    \E t \in Threads :
        /\ thr[t].op = "send_command" /\ thr[t].pc = "sc_s1_ret"
        /\ replaced[thr[t].serial] # NullHandle
        /\ thr[t].handle = serials[thr[t].serial]
        /\ thr[t].handle # replaced[thr[t].serial]

\* C13 (as claimed): a typed read accessor never raises; when its send_command
\* ended with an exception, or the response is no number for the float and
\* int accessors, it returns None.
C13_ReadsNeverRaise ==
    [][\A t \in Threads :
         (drv[t].op = "read" /\ drv[t].pc = "rd" /\ drv'[t].pc = "done") =>
            /\ drv'[t].out = "return"
            /\ thr[t].ret # "ok" => drv'[t].result = None
            /\ (drv[t].acc \in {"float", "int"} /\ drv[t].resp.k # "num") =>
                  drv'[t].result = None]_vars

\* C14: send_write_command sends the write command first; when the write has
\* returned it sends the read command of the same register as its next
\* command; when the write ended with an exception it sends no read; and when
\* the read returns a number, that number is what send_write_command returns,
\* whatever value was requested.
C14_WriteThenReadback ==
    [][\A t \in Threads :
         /\ (drv'[t].pc = "wc_write" /\ drv[t].pc # "wc_write") =>
               /\ drv'[t].cmd.name \in {"PCMD=", "KSWCMD="}
               /\ drv'[t].cmd.val = drv'[t].wval
               /\ thr'[t].pc = "sc_known1"
         /\ (drv'[t].pc = "wc_read" /\ drv[t].pc # "wc_read") =>
               /\ drv[t].pc = "wc_write" /\ thr[t].pc = "done" /\ thr[t].ret = "ok"
               /\ drv'[t].cmd = Command(ReadOf(drv[t].cmd.name), 0)
               /\ thr'[t].pc = "sc_known1"
         /\ (drv[t].pc = "wc_write" /\ thr[t].pc = "done" /\ drv'[t] # drv[t]) =>
               IF thr[t].ret = "ok" THEN drv'[t].pc = "wc_read"
               ELSE drv'[t].pc = "done"
         /\ (/\ drv[t].pc = "wc_read" /\ thr[t].pc = "done" /\ thr[t].ret = "ok"
             /\ drv[t].resp.k = "num" /\ drv'[t] # drv[t]) =>
               /\ drv'[t].pc = "done" /\ drv'[t].out = "return"
               /\ drv'[t].wret = Float(drv[t].resp.n)]_vars

\* C14 witness: send_write_command has returned a readback that differs from
\* the value it was asked to write.
C14_Witness ==
    \E t \in Threads :
        /\ drv[t].pc = "done" /\ drv[t].op = "set_power_setpoint"
        /\ drv[t].wret.k = "float" /\ drv[t].wret.n # drv[t].wval

\* C15 (as claimed): when the write command of a setter ended with an
\* exception, the setter ends by raising.
C15_WritesFailLoud ==
    [][\A t \in Threads :
         (/\ drv[t].pc = "wc_write" /\ thr[t].pc = "done" /\ thr[t].ret # "ok"
          /\ drv'[t] # drv[t]) =>
            drv'[t].pc = "done" /\ drv'[t].out = "raise"]_vars

\* C16 (as claimed): enable() enters the write KSWCMD=1 only after its own
\* reads of interlock and key switch both returned true; once one of the two
\* reads was false or absent, enable() ends by returning, without a write.
C16_EnableGate ==
    [][\A t \in Threads :
         /\ (/\ drv'[t].pc = "wc_write" /\ drv[t].pc # "wc_write"
             /\ drv'[t].cmd = Command("KSWCMD=", 1)) =>
               /\ drv'[t].op = "enable"
               /\ drv'[t].vInt = Bool(TRUE) /\ drv'[t].vKey = Bool(TRUE)
         /\ (/\ drv[t].op = "enable" /\ drv[t].pc \in {"sw_log_int", "sw_log_key"}
             /\ drv'[t].pc = "done") =>
               /\ drv'[t].out = "return" /\ drv'[t].nWrite = 0
               /\ laser'.ksw = laser.ksw]_vars

\* C17 (as claimed): a disable() that ends has issued the write KSWCMD=0,
\* whatever the interlock and the key switch read.
C17_DisableAlwaysWrites ==
    [][\A t \in Threads :
         (/\ drv[t].op = "disable" /\ drv[t].pc # "done" /\ drv'[t].pc = "done"
          /\ drv'[t].out = "return") =>
            drv'[t].nWrite >= 1]_vars

\* C18 (as claimed): on a MiniX head, after power_setpoint was set to X mW,
\* a power_setpoint read to which the head answers the native value of that
\* write returns X.
C18_UnitRoundTrip ==
    [][\A t \in Threads :
         (/\ drv[t].op = "get_power_setpoint" /\ drv[t].pc = "gp_read"
          /\ thr[t].pc = "done" /\ thr[t].ret = "ok"
          /\ laser.htype = "MiniX" /\ gmx.unit_factor = head_type2unit_factor(Text("MiniX"))
          /\ gmx.lastSet.x >= 0 /\ drv[t].resp = Num(gmx.lastSet.n)
          /\ drv'[t].pc = "done") =>
            /\ drv'[t].out = "return"
            /\ drv'[t].result = Float(gmx.lastSet.x)]_vars

\* C19 (as claimed): on a MiniX head the native value written for a
\* setpoint of X mW is X / 1000, and the getter returns the native reading
\* times 1000.
C19_NativeIsMilliwattsOver1000 ==
    [][\A t \in Threads :
         /\ (/\ drv'[t].op = "set_power_setpoint"
             /\ drv'[t].pc = "wc_write" /\ drv[t].pc # "wc_write"
             /\ laser.htype = "MiniX"
             /\ gmx'.unit_factor = head_type2unit_factor(Text("MiniX"))) =>
               /\ drv'[t].cmd.name = "PCMD="
               /\ drv'[t].cmd.val * 1000 = drv'[t].arg
         /\ (/\ drv[t].op = "get_power_setpoint" /\ drv[t].pc # "done"
             /\ drv'[t].pc = "done" /\ drv'[t].out = "return"
             /\ drv'[t].result.k = "float"
             /\ laser.htype = "MiniX"
             /\ gmx'.unit_factor = head_type2unit_factor(Text("MiniX"))) =>
               drv'[t].result.n = laser.pcmd * 1000]_vars

\* C20 (as claimed): when the fault code was read and is a number, alarms
\* returns a non-empty list, and exactly [NO_FAULT] for the code zero.
C20_AlarmsNeverEmpty ==
    [][\A t \in Threads :
         (/\ drv[t].op = "alarms" /\ drv[t].pc = "al_read"
          /\ thr[t].pc = "done" /\ thr[t].ret = "ok" /\ drv[t].resp.k = "num"
          /\ drv'[t].pc = "done") =>
            /\ drv'[t].out = "return"
            /\ drv'[t].result.k = "list" /\ drv'[t].result.l # <<>>
            /\ drv[t].resp.n = 0 => drv'[t].result = List(<<NO_FAULT>>)]_vars

\* C21: when the head answers a non-zero enumerated fault value v, the list
\* that alarms returns (Alarm.from_code(v)) contains the alarm of value v;
\* for 0x0003 it contains OVER_CURRENT.
C21_FromCodeContainsFault ==
    [][\A t \in Threads :
         (/\ drv[t].op = "alarms" /\ drv[t].pc = "al_read"
          /\ thr[t].pc = "done" /\ thr[t].ret = "ok"
          /\ drv[t].resp.k = "num" /\ drv[t].resp.n \in FaultCodes \ {NO_FAULT}
          /\ drv'[t].pc = "done") =>
            /\ drv'[t].out = "return" /\ drv'[t].result.k = "list"
            /\ drv'[t].result = List(from_code(drv[t].resp.n))
            /\ \E i \in DOMAIN drv'[t].result.l :
                  drv'[t].result.l[i] = drv[t].resp.n]_vars

C21_Witness ==
    \E t \in Threads :
        /\ drv[t].pc = "done" /\ drv[t].op = "alarms" /\ laser.ff = OVER_CURRENT
        /\ drv[t].result.k = "list"
        /\ \E i \in DOMAIN drv[t].result.l : drv[t].result.l[i] = OVER_CURRENT

\* C22 (as claimed): an evaluation of info whose head type read was answered
\* (the serial was discovered and mapped) ends by returning a record,
\* whichever of its later reads failed.
C22_InfoNeverFails ==
    [][\A t \in Threads :
         (/\ drv[t].op = "info" /\ drv[t].pc \in {"info_hh", "info_hbdrev"}
          /\ drv[t].head_type # None /\ drv'[t].pc = "done") =>
            /\ drv'[t].out = "return"
            /\ drv'[t].rinfo.cached]_vars

\* C23: once an evaluation of info has returned, a call of info or of
\* unit_factor ends at once without a command to the manager, info returns
\* the record of the first evaluation, and that record never changes.
C23_InfoFetchedOnce ==
    [][/\ gmx.fetched => gmx'.info = gmx.info /\ gmx'.fetched
       /\ \A t \in Threads :
            (/\ gmx.fetched /\ drv[t].pc = "idle"
             /\ drv'[t].op \in {"info", "unit_factor"}) =>
               /\ drv'[t].pc = "done" /\ drv'[t].out = "return"
               /\ thr' = thr
               /\ drv'[t].op = "info" => drv'[t].rinfo = gmx.info
               /\ drv'[t].op = "unit_factor" =>
                     drv'[t].result = Num(head_type2unit_factor(gmx.info.head_type))]_vars

C23_Witness ==
    \E t \in Threads :
        /\ drv[t].pc = "done" /\ drv[t].op = "info" /\ drv[t].hit
        /\ gmx.fetched /\ drv[t].rinfo.head_hours = Text("100") /\ laser.hh = "101"

\* C24: every serial of the list that the registry's discovery returned is
\* registered; get_device of a registered serial returns its instance
\* without a discovery; get_device of any other serial runs discover() once
\* and raises not-found when the discovery failed or the serial is still
\* unknown, and otherwise constructs one instance, registers and returns
\* it; a registered instance is never replaced.
C24_RegistryGet ==
    [][\A t \in Threads : \A s \in Serials :
         /\ (DEVICES[s] # NoDevice) => (DEVICES'[s] = DEVICES[s])
         /\ (/\ Request(t).pc = "rd_discover" /\ Request(t)'.out = "return"
             /\ s \in Request(t)'.serials) => DEVICES'[s] # NoDevice
         /\ (/\ Request(t).pc = "idle" /\ Request(t)'.op = "get_device"
             /\ Request(t)'.serial = s) =>
               IF DEVICES[s] # NoDevice
               THEN /\ Request(t)'.pc = "done" /\ Request(t)'.out = "return"
                    /\ Request(t)'.device = DEVICES[s]
                    /\ Request(t)'.nDiscover = 0 /\ thr' = thr
               ELSE /\ Request(t)'.pc = "gd_discover"
                    /\ thr'[t].op = "discover" /\ thr'[t].nDisc = 1
         /\ (/\ Request(t).pc = "gd_discover" /\ Request(t).serial = s
             /\ Request(t)'.pc = "done") =>
               /\ Request(t)'.nDiscover = 1
               /\ IF thr[t].ret # "ok" \/ s \notin DOMAIN serials
                  THEN /\ Request(t)'.out = "raise"
                       /\ Request(t)'.exc = "HTTP404"
                       /\ DEVICES' = DEVICES
                  ELSE /\ Request(t)'.out = "return"
                       /\ Request(t)'.device = DEVICES'[s]
                       /\ DEVICES'[s] # NoDevice
                       /\ \A x \in Serials : DEVICES'[s] # DEVICES[x]]_vars

C24_Witness ==
    \E t \in Threads :
        /\ Request(t).pc = "done" /\ Request(t).op = "get_device"
        /\ Request(t).out = "return" /\ Request(t).nDiscover = 1
        /\ Request(t).device = DEVICES[Request(t).serial]
        /\ \E s \in Serials :
              /\ s # Request(t).serial /\ DEVICES[s] # NoDevice
              /\ DEVICES[s] < Request(t).device

\* C25: list_devices enters a discovery only when DEVICES has no key; with
\* a key in DEVICES it returns the keys and calls nothing below it.
C25_ListFromRegistry ==
    [][\A t \in Threads :
         (Request(t).pc = "idle" /\ Request(t)'.op = "list_devices") =>
            IF \E s \in Serials : DEVICES[s] # NoDevice
            THEN /\ Request(t)'.pc = "done" /\ Request(t)'.out = "return"
                 /\ Request(t)'.serials = {s \in Serials : DEVICES[s] # NoDevice}
                 /\ Request(t)'.nDiscover = 0
                 /\ thr' = thr /\ DEVICES' = DEVICES
                 /\ UNCHANGED managerVars
            ELSE /\ Request(t)'.pc = "rd_discover"
                 /\ thr'[t].op = "discover"]_vars

C25_Witness ==
    \E t \in Threads :
        /\ Request(t).pc = "done" /\ Request(t).op = "list_devices"
        /\ Request(t).out = "return" /\ Request(t).nDiscover = 0
        /\ \E s \in Request(t).serials : s \notin Connected

C27_MockPowerCentre ==
    [][(mock'.power_mw # mock.power_mw \/ mock'.read_at # mock.read_at) =>
         IF mock._software_switch /\ mock._interlock /\ mock._key
         THEN mock'.power_mw.mu = mock._power_mw
         ELSE mock'.power_mw.mu = BaselineMean]_vars

C27_Witness ==
    /\ ~mock._software_switch /\ mock._power_mw = 100000
    /\ mock.read_at = 100000 /\ mock.power_mw = Gauss(BaselineMean, BaselineSigma)

\* C29 (as claimed): when the read of the mode is answered with the number
\* the head holds, the getter returns the mode of that number: PHOTO for 0,
\* CURRENT for 1.
C29_ModeGetter ==
    [][\A t \in Threads :
         (/\ drv[t].op = "mode" /\ drv[t].pc = "md_read"
          /\ thr[t].pc = "done" /\ thr[t].ret = "ok"
          /\ drv[t].resp = Num(laser.mode)
          /\ drv'[t].pc = "done") =>
            /\ drv'[t].out = "return"
            /\ drv'[t].result = Num(laser.mode)]_vars

\* C30: the enable gate holds no lock across its check and its write: while
\* software_switch = True is between two of its send_command calls (the
\* interlock or key read has returned, the next command has not entered the
\* interface), the manager lock is not held by the caller.  The witness is
\* the race: the KSWCMD=1 write is in the interface while the interlock,
\* read closed by the check, is open.
C30_NoLockAcrossGate ==
    \A t \in Threads :
        (/\ drv[t].op = "enable"
         /\ drv[t].pc \in {"sw_int", "sw_key", "wc_write"}
         /\ thr[t].pc \in {"done", "sc_known1", "sc_known2", "sc_lock"}) =>
            lock # t

C30_Witness ==
    \E t \in Threads :
        /\ drv[t].op = "enable" /\ drv[t].pc = "wc_write"
        /\ drv[t].cmd = Command("KSWCMD=", 1)
        /\ thr[t].pc = "sc_s1_ret" /\ lock = t
        /\ drv[t].vInt = Bool(TRUE) /\ drv[t].vKey = Bool(TRUE)
        /\ ~laser.int

C40_FromCodeExact ==
    [][\A t \in Threads :
         (/\ drv[t].op = "alarms" /\ drv[t].pc = "al_read"
          /\ thr[t].pc = "done" /\ thr[t].ret = "ok"
          /\ drv[t].resp.k = "num" /\ drv[t].resp.n \in FaultCodes \ {NO_FAULT}
          /\ drv'[t].pc = "done") =>
            drv'[t].result = List(<<drv[t].resp.n>>)]_vars

\* C38 (as claimed): when the read of the power setpoint is answered with a
\* number, zero included, the getter that ends there returns a number.
C38_GetterReturnsNumber ==
    [][\A t \in Threads :
         (/\ drv[t].op = "get_power_setpoint" /\ drv[t].pc = "gp_read"
          /\ thr[t].pc = "done" /\ thr[t].ret = "ok"
          /\ drv[t].resp.k = "num"
          /\ drv'[t].pc = "done") =>
            /\ drv'[t].out = "return"
            /\ drv'[t].result.k = "float"]_vars

\* C34 (as claimed): under concurrent callers a send_command ends by
\* returning the response or by raising a HOPS exception (CommandError,
\* DeviceNotFound, or the HOPSException of a failed discovery), never by
\* another error.
C34_OnlyHopsExceptions ==
    [][\A t \in Threads :
         (thr[t].op = "send_command" /\ thr[t].pc # "done"
              /\ thr'[t].pc = "done") =>
            thr'[t].ret \in {"ok", "CommandError", "DeviceNotFound",
                             "NoDevicesFound", "CheckError", "SerialsError"}]_vars

\* Positions at which a thread is about to enter `with self._lock`.
LockEntry == {"sc_lock", "rs_lock", "cl_lock", "cd_lock"}

\* Positions inside a `with self._lock` block.
InsideLock ==
    {"rs_loop", "rs_q1_ret", "rs_init_ret", "rs_close_ret", "rs_q2_ret",
     "rs_end", "sc_s1_ret", "sc_init_ret", "sc_initclose_ret", "sc_s2_ret",
     "sc_close_ret", "cl_close_ret"}

C39_SendCommandFrame ==
    [][\A t \in Threads :
         (/\ thr[t].op = "send_command"
          /\ IF thr[t].pc = "sc_known1" THEN Known(thr[t].serial)
             ELSE thr[t].nDisc = 0
          /\ thr'[t] # thr[t]) =>
            /\ \A s \in Serials \ {thr[t].serial} :
                  /\ (s \in DOMAIN serials') = Known(s)
                  /\ Known(s) => serials'[s] = serials[s]
            /\ (thr'[t].pc = "done" /\ thr'[t].ret = "CommandError") =>
                  serials' = MapDel(serials, thr[t].serial)
            /\ ~(thr'[t].pc = "done" /\ thr'[t].ret = "CommandError") =>
                  serials' = serials]_vars

\* C39 witness: a call that found S known has sent, reinitialized and sent
\* again, all failing, with the other serial mapped to its attached handle.
C39_Witness ==
    \E t \in Threads :
        /\ thr[t].op = "send_command" /\ thr[t].pc = "sc_close_ret"
        /\ thr[t].nDisc = 0 /\ thr[t].nSend = 2
        /\ Known(thr[t].serial)
        /\ \E s \in Serials \ {thr[t].serial} :
              Known(s) /\ attached[serials[s]] = s

\* C37 (as claimed): on a MiniX head every power-setpoint write is made with
\* the unit factor 1000 (the value written for X mW is X * 1000), whatever
\* happened to earlier head-type reads of the instance.
C37_MiniXFactor ==
    [][\A t \in Threads :
         (/\ drv'[t].op = "set_power_setpoint"
          /\ drv'[t].pc = "wc_write" /\ drv[t].pc # "wc_write"
          /\ laser.htype = "MiniX") =>
            /\ drv'[t].cmd.name = "PCMD="
            /\ drv'[t].cmd.val =
                   drv'[t].arg * head_type2unit_factor(Text("MiniX"))]_vars

C31_TwoAcquisitions ==
    /\ [](\A t \in Threads :
            (drv[t].pc = "wc_write" /\ thr[t].pc = "done") => lock # t)
    /\ [][\A t \in Threads :
            (drv[t].pc = "wc_write" /\ drv'[t].pc = "wc_read") =>
                /\ lock # t /\ lock' # t
                /\ thr'[t].pc = "sc_known1" /\ thr'[t].nSend = 0]_vars
    /\ [][\A t \in Threads :
            (~drv[t].overtaken /\ drv'[t].overtaken) =>
                /\ BetweenHalves(t)
                /\ \E u \in Threads \ {t} :
                       /\ lock = u /\ drv[u].pc = "wc_write"
                       /\ thr'[u].pc = "done" /\ thr'[u].ret = "ok"]_vars

\* Caller t assigned one mode and its send_write_command returned the mode
\* that caller u wrote between t's write and t's read.
C31_Witness ==
    \E t, u \in Threads :
        /\ t # u
        /\ drv[t].pc = "done" /\ drv[t].op = "set_mode"
        /\ drv[t].overtaken
        /\ drv[u].op = "set_mode" /\ drv[u].wval # drv[t].wval
        /\ drv[t].wret = Float(drv[u].wval)

\* C32 (as claimed): for each device serial at most one status-publisher
\* task is running at any time, across websocket connects, disconnects,
\* publisher exits and rediscoveries.
C32_OnePublisherPerSerial ==
    \A s \in Serials : Cardinality(Publishers(s)) <= 1

\* C33 (as claimed): whenever the connection list of a record is non-empty
\* while the server runs, a publisher of that record is running, and a running
\* publisher stops only when the list is empty or at shutdown.
C33_PublisherWhileConnected ==
    /\ [](\A i \in Records :
            (ws.phase = "run" /\ ws.record[i].active_connections # {})
                => ws.record[i].publisher_task = "running")
    /\ [][\A i \in Records :
            (ws.record[i].publisher_task = "running"
             /\ ws'.record[i].publisher_task # "running")
                => \/ ws.record[i].active_connections = {}
                   \/ ws'.phase = "shutdown"]_vars

====
